---- MODULE Spec2Model ----
(***************************************************************************)
(* A model of the screening core of nysh-work/screener: the criteria       *)
(* compiler and the screening query (src/screener/engine.py), the custom   *)
(* screen registry (src/screener/custom_builder.py), the portfolio         *)
(* (src/portfolio/tracker.py) and the tables they use                      *)
(* (src/data/database.py, src/data/models.py).                             *)
(*                                                                         *)
(* Python values are modelled as follows.  A dict with string keys is a    *)
(* TLA+ function whose DOMAIN is the set of keys (a record); where the     *)
(* iteration order of the dict matters (a criteria dict) it is a sequence  *)
(* of [field, cond] entries with distinct fields, in insertion order.      *)
(* A str is a string, a list is a sequence.  Numbers are integers; the     *)
(* thresholds of the built-in catalog are written in tenths (1.5 is 15).   *)
(* An SQL string is the sequence of its tokens; placeholder names are      *)
(* real strings, built by concatenation as the code builds them.           *)
(***************************************************************************)
EXTENDS Integers, Sequences, FiniteSets, TLC

VARIABLES
    company_master,      \* table company_master: ticker -> [sector, market_cap]
    snapshots,           \* tables fundamentals/derived/growth/quality: family -> rows
    portfolio,           \* table portfolio: sequence of holdings, in insertion order
    custom_screens,      \* table custom_screens: sequence of stored screens
    PREDEFINED_SCREENS,  \* the module-level catalog dict of screener/criteria.py
    audit_log,           \* table audit_log: sequence of records, in insertion order
    backtest_results,    \* table backtest_results: sequence of records
    technical_indicators, \* table technical_indicators: sequence of snapshots
    cache,               \* IndexDataService.cache: cache key -> [data, timestamp]
    now,                 \* the clock, in seconds
    call                 \* the most recent call: its name, arguments and outcome

vars == <<company_master, snapshots, portfolio, custom_screens, PREDEFINED_SCREENS,
          audit_log, backtest_results,
                 technical_indicators, cache, now, call>>

(***************************************************************************)
(* Bounds of the model.                                                    *)
(***************************************************************************)
MaxVal == 2          \* operands of predicates range over 1..MaxVal
MaxRows == 2         \* snapshot rows appended in all, over all families
MaxHoldings == 3     \* portfolio rows inserted in all

Vals == 1..MaxVal
Dates == {1, 2}                       \* as-of dates, 1 earlier than 2
MetricVals == 1..(MaxVal + 1)         \* stored metric values
Tickers == {"TICK", "ACME"}
Sectors == {"IT", "Bank"}

NULL == -1                            \* SQL NULL / Python None of a numeric column
NoText == "<NULL>"                    \* SQL NULL of a text column

(***************************************************************************)
(* Python dict helpers.                                                    *)
(***************************************************************************)
EmptyDict == [k \in {} |-> NULL]

\* d[k] = v
DictSet(d, k, v) == [x \in (DOMAIN d) \cup {k} |-> IF x = k THEN v ELSE d[x]]

\* d.update(e)
DictUpdate(d, e) == [x \in (DOMAIN d) \cup (DOMAIN e) |-> IF x \in DOMAIN e THEN e[x] ELSE d[x]]

\* the keys of a criteria dict, and criteria[field]
Fields(criteria) == {criteria[i].field : i \in 1..Len(criteria)}
CondOf(criteria, field) ==
    LET i == CHOOSE j \in 1..Len(criteria) : criteria[j].field = field
    IN  criteria[i].cond

(***************************************************************************)
(* ScreeningEngine._build_where_clause                                     *)
(***************************************************************************)
\* column_table_map of _build_where_clause
column_table_map ==
    [market_cap |-> "c", sector |-> "c", industry |-> "c",
     price_to_book |-> "d", price_to_earnings |-> "d", ev_ebitda |-> "d",
     roe |-> "d", roce |-> "d", debt_equity |-> "d", current_ratio |-> "d",
     interest_coverage |-> "d", opm |-> "d", npm |-> "d",
     revenue_cagr_3y |-> "g", revenue_cagr_5y |-> "g",
     profit_cagr_3y |-> "g", profit_cagr_5y |-> "g",
     promoter_holding |-> "q", altman_z_score |-> "q", ocf_to_net_profit |-> "q"]

\* f"{column_table_map[field]}.{field}" if field in column_table_map else field
qualified_field(field) ==
    IF field \in DOMAIN column_table_map
    THEN column_table_map[field] \o "." \o field
    ELSE field

\* field.replace('.', '_'): no field of the model contains a dot
param_name(field) == field

\* An operand of a rendered predicate: the named placeholder ":name".
Placeholder(name, value) == [ph |-> name]

\* The same operand written into the SQL text as a literal.
InlineLiteral(name, value) == [lit |-> value]

\* How _build_where_clause and apply_criteria render an operand.
Operand(name, value) == Placeholder(name, value)

\* does rendering the predicate raise (KeyError on a missing key, TypeError on
\* len(None))
ClauseRaises(cond) ==
    \/ "operator" \notin DOMAIN cond
    \/ /\ cond.operator = "between"
       /\ ~({"min", "max"} \subseteq DOMAIN cond)
    \/ /\ cond.operator = "in"
       /\ "value" \notin DOMAIN cond

\* condition.get('value')
GetValue(cond) == IF "value" \in DOMAIN cond THEN cond.value ELSE NULL

\* the text appended to where_clauses for one predicate
Clause(field, cond) ==
    LET qf == qualified_field(field)
        pn == param_name(field)
    IN  IF cond.operator = "between"
        THEN [kind |-> "between", col |-> qf,
              lo |-> Operand(pn \o "_min", cond.min),
              hi |-> Operand(pn \o "_max", cond.max)]
        ELSE IF cond.operator = "in"
        THEN [kind |-> "in", col |-> qf,
              args |-> [i \in 1..Len(cond.value) |->
                          Operand(pn \o "_" \o ToString(i - 1), cond.value[i])]]
        ELSE [kind |-> "cmp", col |-> qf, op |-> cond.operator,
              arg |-> Operand(pn, GetValue(cond))]

RECURSIVE BindList(_, _, _, _)
\* for i, v in enumerate(value): params[f'{prefix}_{i}'] = v   (from index i on)
BindList(params, prefix, value, i) ==
    IF i > Len(value) THEN params
    ELSE BindList(DictSet(params, prefix \o "_" \o ToString(i - 1), value[i]),
                  prefix, value, i + 1)

\* the assignments to params for one predicate
Bind(params, field, cond) ==
    LET pn == param_name(field)
    IN  IF cond.operator = "between"
        THEN DictSet(DictSet(params, pn \o "_min", cond.min), pn \o "_max", cond.max)
        ELSE IF cond.operator = "in"
        THEN BindList(params, pn, cond.value, 1)
        ELSE DictSet(params, pn, GetValue(cond))

RECURSIVE BindCriteria(_, _, _)
BindCriteria(params, criteria, i) ==
    IF i > Len(criteria) THEN params
    ELSE BindCriteria(Bind(params, criteria[i].field, criteria[i].cond), criteria, i + 1)

\* sep.join(parts), the separator being one token
RECURSIVE Join(_, _)
Join(parts, sep) ==
    IF Len(parts) = 0 THEN <<>>
    ELSE IF Len(parts) = 1 THEN <<parts[1]>>
    ELSE <<parts[1], sep>> \o Join(Tail(parts), sep)

\* the connective that ignores the requested logic
ConnectiveAlwaysAnd(logic) == [kind |-> "conn", word |-> "AND"]

\* the separator f" {logic} " of the join
Connective(logic) == [kind |-> "conn", word |-> logic]

\* _build_where_clause(criteria, logic) -> (where_sql, params), or an exception
build_where_clause(criteria, logic) ==
    IF \E i \in 1..Len(criteria) : ClauseRaises(criteria[i].cond)
    THEN [raised |-> TRUE, where_sql |-> <<>>, params |-> EmptyDict]
    ELSE [raised |-> FALSE,
          where_sql |-> Join([i \in 1..Len(criteria) |->
                                 Clause(criteria[i].field, criteria[i].cond)],
                             Connective(logic)),
          params |-> BindCriteria(EmptyDict, criteria, 1)]

(***************************************************************************)
(* The additional-filter layer of ScreeningEngine.apply_criteria.          *)
(* additional_filters is a dict with keys among sector and min_market_cap; *)
(* the value of sector is [str |-> s] for a str and [list |-> <<s1, ...>>] *)
(* for a list.                                                             *)
(***************************************************************************)
\* 'sector' in additional_filters and additional_filters['sector']
HasSector(filters) ==
    /\ "sector" \in DOMAIN filters
    /\ IF "str" \in DOMAIN filters.sector THEN filters.sector.str # ""
                                            ELSE Len(filters.sector.list) > 0

\* sectors = [sectors] if isinstance(sectors, str) else sectors
SectorList(filters) ==
    IF "str" \in DOMAIN filters.sector THEN <<filters.sector.str>> ELSE filters.sector.list

\* 'min_market_cap' in additional_filters and additional_filters['min_market_cap']
HasMinCap(filters) ==
    /\ "min_market_cap" \in DOMAIN filters
    /\ filters.min_market_cap # 0

additional_clauses(filters) ==
    (IF HasSector(filters)
     THEN <<[kind |-> "in", col |-> "c.sector",
             args |-> [i \in 1..Len(SectorList(filters)) |->
                          Operand("sector_" \o ToString(i - 1), SectorList(filters)[i])]]>>
     ELSE <<>>)
    \o
    (IF HasMinCap(filters)
     THEN <<[kind |-> "cmp", col |-> "c.market_cap", op |-> ">=",
             arg |-> Operand("min_market_cap", filters.min_market_cap)]>>
     ELSE <<>>)

additional_params(params, filters) ==
    LET p1 == IF HasSector(filters)
              THEN BindList(params, "sector", SectorList(filters), 1)
              ELSE params
    IN  IF HasMinCap(filters)
        THEN DictSet(p1, "min_market_cap", filters.min_market_cap)
        ELSE p1

LParen == [kind |-> "("]
RParen == [kind |-> ")"]

\* where_sql = f"({where_sql}) AND {' AND '.join(additional_clauses)}"
Parenthesised(where_sql, extra) ==
    <<LParen>> \o where_sql \o <<RParen, Connective("AND")>> \o Join(extra, Connective("AND"))

CombineFilters(where_sql, extra) == Parenthesised(where_sql, extra)

\* lines 105-124 of apply_criteria: the final WHERE text and its bindings
final_where(criteria, logic, filters) ==
    LET b == build_where_clause(criteria, logic)
        extra == additional_clauses(filters)
    IN  IF b.raised THEN b
        ELSE [raised |-> FALSE,
              where_sql |-> IF Len(extra) > 0 THEN CombineFilters(b.where_sql, extra)
                                              ELSE b.where_sql,
              params |-> additional_params(b.params, filters)]

(***************************************************************************)
(* What the database does with a WHERE text and its bindings (SQLite, the  *)
(* engine Database.__init__ selects by default).  OR binds weaker than     *)
(* AND, parentheses group, keywords are case-insensitive.  A WHERE clause  *)
(* keeps a row iff the expression is TRUE; with AND and OR only, that is   *)
(* decided by which predicates are TRUE (a predicate on a NULL is not).    *)
(***************************************************************************)
SqlWord(w) ==
    CASE w \in {"AND", "and"} -> "AND"
      [] w \in {"OR", "or"} -> "OR"
      [] OTHER -> "?"

SqlComparisons == {"<", ">", "<=", ">=", "=", "!=", "==", "<>"}

\* the columns of the joined tables the model carries, by qualified name
TextColumns == {"c.ticker", "c.sector"}
NumColumns == {"c.market_cap", "f.price", "d.roe", "g.revenue_cagr_3y", "q.promoter_holding"}

\* the other columns of the joined tables that column_table_map names; the
\* rows of the model leave them unset (NULL)
UnsetColumns ==
    {"c.industry", "d.price_to_book", "d.price_to_earnings", "d.ev_ebitda", "d.roce",
     "d.debt_equity", "d.current_ratio", "d.interest_coverage", "d.opm", "d.npm",
     "g.revenue_cagr_5y", "g.profit_cagr_3y", "g.profit_cagr_5y",
     "q.altman_z_score", "q.ocf_to_net_profit"}

\* an unqualified name resolves when exactly one joined table has the column
ResolveColumn(col) ==
    IF col \in TextColumns \cup NumColumns \cup UnsetColumns THEN col
    ELSE IF col = "price" THEN "f.price"
    ELSE "?"

IsConn(tok, word) == tok.kind = "conn" /\ SqlWord(tok.word) = word

Depth(toks, i) ==
    Cardinality({j \in 1..(i - 1) : toks[j].kind = "("})
    - Cardinality({j \in 1..(i - 1) : toks[j].kind = ")"})

\* the segments of toks between the connectives `word` outside parentheses,
\* each as <<position before its first token, position after its last>>
Segments(toks, word) ==
    LET cuts == {i \in 1..Len(toks) : IsConn(toks[i], word) /\ Depth(toks, i) = 0}
                \cup {0, Len(toks) + 1}
    IN  {s \in cuts \X cuts :
            s[1] < s[2] /\ ~(\E c \in cuts : s[1] < c /\ c < s[2])}

Segment(toks, s) == SubSeq(toks, s[1] + 1, s[2] - 1)

OperandsOf(tok) ==
    CASE tok.kind = "cmp" -> {tok.arg}
      [] tok.kind = "between" -> {tok.lo, tok.hi}
      [] tok.kind = "in" -> {tok.args[i] : i \in 1..Len(tok.args)}
      [] OTHER -> {}

PlaceholdersOf(toks) ==
    UNION {{o.ph : o \in {x \in OperandsOf(toks[i]) : "ph" \in DOMAIN x}} : i \in 1..Len(toks)}

\* is one predicate valid SQL over the joined tables, with its placeholders bound
ClauseOK(tok, params) ==
    /\ tok.kind \in {"cmp", "between", "in"}
    /\ ResolveColumn(tok.col) # "?"
    /\ tok.kind = "cmp" => tok.op \in SqlComparisons
    /\ \A o \in OperandsOf(tok) : "ph" \in DOMAIN o => o.ph \in DOMAIN params

RECURSIVE SqlOK(_, _)
\* does the statement prepare and execute (no syntax error, no unknown column,
\* no unbound placeholder)
SqlOK(toks, params) ==
    /\ Len(toks) > 0
    /\ \A s \in Segments(toks, "OR") :
         LET t == Segment(toks, s)
         IN  /\ Len(t) > 0
             /\ \A u \in Segments(t, "AND") :
                  LET f == Segment(t, u)
                  IN  /\ Len(f) > 0
                      /\ IF Len(f) = 1 THEN ClauseOK(f[1], params)
                         ELSE /\ f[1].kind = "("
                              /\ f[Len(f)].kind = ")"
                              /\ SqlOK(SubSeq(f, 2, Len(f) - 1), params)

OperandValue(o, params) == IF "ph" \in DOMAIN o THEN params[o.ph] ELSE o.lit

IsNull(v, col) == IF col \in TextColumns THEN v = NoText ELSE v = NULL

Compare(op, v, w) ==
    CASE op = "<" -> v < w
      [] op = ">" -> v > w
      [] op = "<=" -> v <= w
      [] op = ">=" -> v >= w
      [] op \in {"=", "=="} -> v = w
      [] op \in {"!=", "<>"} -> v # w

\* is the predicate TRUE on the row
ClauseTrue(tok, params, row) ==
    LET col == ResolveColumn(tok.col)
        v == row[col]
        known(o) == ~IsNull(OperandValue(o, params), col)
    IN  /\ col \notin UnsetColumns
        /\ ~IsNull(v, col)
        /\ tok.kind \in {"cmp", "between"} => \A o \in OperandsOf(tok) : known(o)
        /\ CASE tok.kind = "cmp" -> Compare(tok.op, v, OperandValue(tok.arg, params))
             [] tok.kind = "between" -> /\ v >= OperandValue(tok.lo, params)
                                        /\ v <= OperandValue(tok.hi, params)
             [] tok.kind = "in" -> \E i \in 1..Len(tok.args) :
                                       v = OperandValue(tok.args[i], params)

RECURSIVE SqlTrue(_, _, _)
\* is the WHERE expression TRUE on the row
SqlTrue(toks, params, row) ==
    \E s \in Segments(toks, "OR") :
        LET t == Segment(toks, s)
        IN  \A u \in Segments(t, "AND") :
                LET f == Segment(t, u)
                IN  IF Len(f) = 1 THEN ClauseTrue(f[1], params, row)
                    ELSE SqlTrue(SubSeq(f, 2, Len(f) - 1), params, row)

(***************************************************************************)
(* CustomScreenBuilder._validate_criteria                                  *)
(***************************************************************************)
valid_operators == {"<", ">", "<=", ">=", "=", "!="}

valid_fields ==
    {"price_to_book", "price_to_earnings", "ev_ebitda",
     "roe", "roce", "opm", "npm",
     "debt_equity", "current_ratio", "interest_coverage",
     "revenue_cagr_3y", "revenue_cagr_5y", "profit_cagr_3y", "profit_cagr_5y",
     "altman_z_score", "promoter_holding", "ocf_to_net_profit",
     "ema_20", "ema_50", "macd", "choppiness_index", "atr_14",
     "market_cap", "price"}

\* the check of one entry without the test of the operator
EntryInvalidFieldOnly(field, cond) ==
    \/ field \notin valid_fields
    \/ "operator" \notin DOMAIN cond
    \/ "value" \notin DOMAIN cond

\* does the check of one entry raise ValueError (every condition of the model
\* is a dict, so the isinstance test passes)
EntryInvalid(field, cond) ==
    \/ field \notin valid_fields
    \/ "operator" \notin DOMAIN cond
    \/ "value" \notin DOMAIN cond
    \/ cond.operator \notin valid_operators

\* does _validate_criteria(criteria) raise
validate_raises(criteria) ==
    \E i \in 1..Len(criteria) : EntryInvalid(criteria[i].field, criteria[i].cond)

(***************************************************************************)
(* Well-formed criteria of the specification: eight recognised operators, *)
(* each with the operand shape that matches it.                            *)
(***************************************************************************)
RecognisedOperators == {"<", ">", "<=", ">=", "=", "!=", "between", "in"}

ShapeOK(cond) ==
    /\ "operator" \in DOMAIN cond
    /\ cond.operator \in RecognisedOperators
    /\ CASE cond.operator = "between" -> {"min", "max"} \subseteq DOMAIN cond
         [] cond.operator = "in" -> "value" \in DOMAIN cond /\ Len(cond.value) > 0
         [] OTHER -> "value" \in DOMAIN cond

ShapesOK(criteria) == \A i \in 1..Len(criteria) : ShapeOK(criteria[i].cond)

WellFormed(criteria) ==
    /\ ShapesOK(criteria)
    /\ \A i \in 1..Len(criteria) : criteria[i].field \in valid_fields

(***************************************************************************)
(* Inputs of the model: criteria dicts, logic, additional filters.         *)
(***************************************************************************)
Logics == {"AND", "OR"}

NumFields == {"roe", "market_cap", "price"}
ComparisonOps == {"<", ">", "<=", ">=", "=", "!="}

\* The conditions drawn as inputs are named by descriptors
\* [operator, a, b]; MakeCond builds the Python dict a descriptor names:
\* {'operator': o, 'value': a}, {'operator': 'between', 'min': a, 'max': b},
\* {'operator': 'in', 'value': [a]} or {'operator': 'in', 'value': [a, b]}.
MakeCond(d, none) ==
    CASE d.operator = "between" -> [operator |-> "between", min |-> d.a, max |-> d.b]
      [] d.operator = "in" -> [operator |-> "in",
                               value |-> IF d.b = none THEN <<d.a>> ELSE <<d.a, d.b>>]
      [] OTHER -> [operator |-> d.operator, value |-> d.a]

\* well-shaped conditions on a numeric field
CmpConds == {[operator |-> o, a |-> v, b |-> 0] : o \in ComparisonOps, v \in Vals}
BetweenConds == {[operator |-> "between", a |-> v, b |-> w] : v \in Vals, w \in Vals}
InConds == {[operator |-> "in", a |-> v, b |-> w] : v \in Vals, w \in Vals \cup {0}}
NumConds == CmpConds \cup BetweenConds \cup InConds
Num(d) == MakeCond(d, 0)

\* conditions on the text field sector
TextConds == {[operator |-> "=", a |-> s, b |-> ""] : s \in Sectors}
             \cup {[operator |-> "in", a |-> s, b |-> t] : s \in Sectors, t \in Sectors \cup {""}}
Text(d) == MakeCond(d, "")

\* conditions whose rendering raises, or that SQL rejects
BadConds == {"no_max", "no_operator", "bad_operator"}
Bad(k) ==
    CASE k = "no_max" -> [operator |-> "between", min |-> 1]
      [] k = "no_operator" -> [value |-> 1]
      [] k = "bad_operator" -> [operator |-> "approx", value |-> 1]

FilterInputs ==
    {EmptyDict,
     [sector |-> [str |-> "IT"]],
     [sector |-> [list |-> <<"IT", "Bank">>]],
     [sector |-> [list |-> <<>>], min_market_cap |-> 0],
     [sector |-> [list |-> <<"Bank">>], min_market_cap |-> 1]}
    \cup {[min_market_cap |-> v] : v \in Vals}

Entry(f, c) == [field |-> f, cond |-> c]

(***************************************************************************)
(* The catalog of built-in screens, screener/criteria.py.                  *)
(***************************************************************************)
\* PREDEFINED_SCREENS as the module defines it (thresholds in tenths)
Catalog ==
    [value |->
        [name |-> "Value Screen", logic |-> "AND",
         criteria |-> <<Entry("price_to_book", [operator |-> "<", value |-> 50]),
                        Entry("ev_ebitda", [operator |-> "<", value |-> 120]),
                        Entry("roe", [operator |-> ">", value |-> 150]),
                        Entry("debt_equity", [operator |-> "<", value |-> 15]),
                        Entry("interest_coverage", [operator |-> ">", value |-> 30]),
                        Entry("market_cap", [operator |-> ">", value |-> 5000])>>],
     growth |->
        [name |-> "Growth Screen", logic |-> "AND",
         criteria |-> <<Entry("revenue_cagr_3y", [operator |-> ">", value |-> 200]),
                        Entry("opm", [operator |-> ">", value |-> 200]),
                        Entry("debt_equity", [operator |-> "<", value |-> 10]),
                        Entry("interest_coverage", [operator |-> ">", value |-> 50])>>],
     balanced |->
        [name |-> "Balanced Screen", logic |-> "AND",
         criteria |-> <<Entry("price_to_book", [operator |-> "<", value |-> 80]),
                        Entry("ev_ebitda", [operator |-> "<", value |-> 200]),
                        Entry("roe", [operator |-> ">", value |-> 120]),
                        Entry("opm", [operator |-> ">", value |-> 150]),
                        Entry("debt_equity", [operator |-> "<", value |-> 20]),
                        Entry("interest_coverage", [operator |-> ">", value |-> 30])>>],
     quality |->
        [name |-> "Quality Screen", logic |-> "AND",
         criteria |-> <<Entry("roe", [operator |-> ">", value |-> 200]),
                        Entry("roce", [operator |-> ">", value |-> 200]),
                        Entry("opm", [operator |-> ">", value |-> 150]),
                        Entry("interest_coverage", [operator |-> ">", value |-> 50]),
                        Entry("debt_equity", [operator |-> "<", value |-> 5]),
                        Entry("altman_z_score", [operator |-> ">", value |-> 26])>>],
     turnaround |->
        [name |-> "Turnaround Screen", logic |-> "AND",
         criteria |-> <<Entry("opm", [operator |-> ">", value |-> 200]),
                        Entry("debt_equity", [operator |-> "<", value |-> 20]),
                        Entry("market_cap", [operator |-> ">", value |-> 2000])>>]]

(***************************************************************************)
(* The compiler as a function: the inputs are drawn in the initial state,  *)
(* then _build_where_clause, or the compiling part of apply_criteria       *)
(* (lines 105-124), is applied to them.                                    *)
(***************************************************************************)
Untouched == UNCHANGED <<company_master, snapshots, portfolio, custom_screens, PREDEFINED_SCREENS,
                 audit_log, backtest_results,
                 technical_indicators, cache, now>>

EmptyTables ==
    /\ company_master = EmptyDict
    /\ snapshots = [fam \in {"f", "d", "g", "q"} |-> <<>>]
    /\ portfolio = <<>>
    /\ custom_screens = <<>>
    /\ audit_log = <<>>
    /\ backtest_results = <<>>
    /\ technical_indicators = <<>>
    /\ cache = EmptyDict
    /\ now = 0

CompileRequest(criteria, logic) ==
    call = [op |-> "request_where", criteria |-> criteria, logic |-> logic]

FinalRequest(criteria, logic, filters) ==
    call = [op |-> "request_final", criteria |-> criteria, logic |-> logic,
            filters |-> filters]

\* criteria of one or two predicates on numeric fields
RequestNumeric ==
    \E logic \in Logics, f1 \in NumFields, c1 \in NumConds :
        \/ CompileRequest(<<Entry(f1, Num(c1))>>, logic)
        \/ \E f2 \in NumFields \ {f1}, c2 \in NumConds :
               CompileRequest(<<Entry(f1, Num(c1)), Entry(f2, Num(c2))>>, logic)
        \/ \E filters \in FilterInputs :
               \/ FinalRequest(<<Entry(f1, Num(c1))>>, logic, filters)
               \/ \E f2 \in NumFields \ {f1}, c2 \in NumConds :
                      FinalRequest(<<Entry(f1, Num(c1)), Entry(f2, Num(c2))>>, logic, filters)

\* criteria with a predicate on sector
RequestText ==
    \E logic \in Logics, c1 \in TextConds :
        \/ CompileRequest(<<Entry("sector", Text(c1))>>, logic)
        \/ \E f2 \in NumFields, c2 \in CmpConds :
               \/ CompileRequest(<<Entry("sector", Text(c1)), Entry(f2, Num(c2))>>, logic)
               \/ CompileRequest(<<Entry(f2, Num(c2)), Entry("sector", Text(c1))>>, logic)
        \/ \E filters \in FilterInputs :
               \/ FinalRequest(<<Entry("sector", Text(c1))>>, logic, filters)
               \/ \E f2 \in NumFields, c2 \in CmpConds :
                      FinalRequest(<<Entry(f2, Num(c2)), Entry("sector", Text(c1))>>,
                                   logic, filters)

\* the empty criteria dict, and criteria with an ill-formed predicate
RequestOdd ==
    \E logic \in Logics :
        \/ CompileRequest(<<>>, logic)
        \/ \E c1 \in BadConds, f2 \in NumFields, c2 \in CmpConds :
               CompileRequest(<<Entry(f2, Num(c2)), Entry("roe", Bad(c1))>>, logic)
        \/ \E filters \in FilterInputs :
               \/ FinalRequest(<<>>, logic, filters)
               \/ \E c1 \in BadConds : FinalRequest(<<Entry("roe", Bad(c1))>>, logic, filters)

InitCompile ==
    /\ EmptyTables
    /\ PREDEFINED_SCREENS = Catalog
    /\ RequestNumeric \/ RequestText \/ RequestOdd

CompileWhere ==
    /\ call.op = "request_where"
    /\ call' = [op |-> "_build_where_clause", criteria |-> call.criteria,
                logic |-> call.logic,
                out |-> build_where_clause(call.criteria, call.logic)]
    /\ Untouched

CompileFinal ==
    /\ call.op = "request_final"
    /\ call' = [op |-> "final_where", criteria |-> call.criteria, logic |-> call.logic,
                filters |-> call.filters,
                out |-> final_where(call.criteria, call.logic, call.filters)]
    /\ Untouched

NextCompile ==
    \/ CompileWhere
    \/ CompileFinal

SpecCompile == InitCompile /\ [][NextCompile]_vars

(***************************************************************************)
(* Properties of the compiler.                                             *)
(***************************************************************************)
\* the operand is a placeholder, and the bindings give it the value v
Bound(o, params, v) ==
    /\ "ph" \in DOMAIN o
    /\ o.ph \in DOMAIN params
    /\ params[o.ph] = v

\* the token renders the predicate with every operand value bound
Renders(tok, params, field, cond) ==
    /\ tok.kind \in {"cmp", "between", "in"}
    /\ tok.col = qualified_field(field)
    /\ CASE cond.operator = "between" ->
              /\ tok.kind = "between"
              /\ Bound(tok.lo, params, cond.min)
              /\ Bound(tok.hi, params, cond.max)
         [] cond.operator = "in" ->
              /\ tok.kind = "in"
              /\ Len(tok.args) = Len(cond.value)
              /\ \A i \in 1..Len(cond.value) : Bound(tok.args[i], params, cond.value[i])
         [] OTHER ->
              /\ tok.kind = "cmp"
              /\ tok.op = cond.operator
              /\ Bound(tok.arg, params, cond.value)

NoLiteral(toks, params) ==
    \A i \in 1..Len(toks) : \A o \in OperandsOf(toks[i]) :
        "ph" \in DOMAIN o /\ o.ph \in DOMAIN params

FiltersRendered(toks, params, filters) ==
    /\ HasSector(filters) =>
         \E i \in 1..Len(toks) :
            /\ toks[i].kind = "in"
            /\ toks[i].col = "c.sector"
            /\ Len(toks[i].args) = Len(SectorList(filters))
            /\ \A j \in 1..Len(SectorList(filters)) :
                  Bound(toks[i].args[j], params, SectorList(filters)[j])
    /\ HasMinCap(filters) =>
         \E i \in 1..Len(toks) :
            /\ toks[i].kind = "cmp"
            /\ toks[i].col = "c.market_cap"
            /\ toks[i].op = ">="
            /\ Bound(toks[i].arg, params, filters.min_market_cap)

\* C8: for every well-formed criteria set, the filter expression built by
\* _build_where_clause and by the additional-filter layer of apply_criteria
\* contains no operand value: every scalar, min, max and list element of a
\* predicate, and every value of an additional filter, is rendered as a named
\* placeholder that the bindings map to that value, and every placeholder of the
\* expression has a binding.
C8_OnlyBoundParameters ==
    (call.op \in {"_build_where_clause", "final_where"} /\ WellFormed(call.criteria)) =>
        /\ ~call.out.raised
        /\ NoLiteral(call.out.where_sql, call.out.params)
        /\ \A k \in 1..Len(call.criteria) :
              \E i \in 1..Len(call.out.where_sql) :
                  Renders(call.out.where_sql[i], call.out.params,
                          call.criteria[k].field, call.criteria[k].cond)
        /\ call.op = "final_where" =>
              FiltersRendered(call.out.where_sql, call.out.params, call.filters)

\* a compile of a between predicate and an in predicate with both additional filters
C8_Witness ==
    /\ call.op = "final_where"
    /\ WellFormed(call.criteria)
    /\ Len(call.criteria) = 2
    /\ call.criteria[1].cond.operator = "between"
    /\ call.criteria[2].cond.operator = "in"
    /\ HasSector(call.filters)
    /\ HasMinCap(call.filters)
    /\ Len(call.out.where_sql) > 3

\* the dataset column that holds a field
FieldColumn(field) ==
    CASE field = "market_cap" -> "c.market_cap"
      [] field = "sector" -> "c.sector"
      [] field = "price" -> "f.price"
      [] field = "roe" -> "d.roe"
      [] field = "revenue_cagr_3y" -> "g.revenue_cagr_3y"
      [] field = "promoter_holding" -> "q.promoter_holding"

\* the meaning of one predicate on a row
Holds(field, cond, row) ==
    LET col == FieldColumn(field)
        v == row[col]
    IN  /\ ~IsNull(v, col)
        /\ CASE cond.operator = "between" -> cond.min <= v /\ v <= cond.max
             [] cond.operator = "in" -> \E i \in 1..Len(cond.value) : v = cond.value[i]
             [] cond.operator = "<" -> v < cond.value
             [] cond.operator = ">" -> v > cond.value
             [] cond.operator = "<=" -> v <= cond.value
             [] cond.operator = ">=" -> v >= cond.value
             [] cond.operator = "=" -> v = cond.value
             [] cond.operator = "!=" -> v # cond.value

\* the meaning of a criteria set under its logic
Satisfies(criteria, logic, row) ==
    IF logic = "AND"
    THEN \A i \in 1..Len(criteria) : Holds(criteria[i].field, criteria[i].cond, row)
    ELSE \E i \in 1..Len(criteria) : Holds(criteria[i].field, criteria[i].cond, row)

NullRow ==
    [c \in TextColumns \cup NumColumns |-> IF c \in TextColumns THEN NoText ELSE NULL]

ColumnVals(col) ==
    IF col \in TextColumns THEN Sectors \cup {NoText} ELSE MetricVals \cup {NULL}

RECURSIVE RowsOver(_, _, _)
\* the rows that take every value, NULL included, in the columns of the criteria
RowsOver(criteria, i, row) ==
    IF i > Len(criteria) THEN {row}
    ELSE LET col == FieldColumn(criteria[i].field)
         IN  UNION {RowsOver(criteria, i + 1, [row EXCEPT ![col] = v]) : v \in ColumnVals(col)}

\* C9: for a non-empty criteria set of well-shaped predicates and logic L, the
\* compiled expression is accepted, and a row satisfies it iff every predicate
\* holds (L = AND) or at least one holds (L = OR); between holds iff
\* min <= value <= max, in iff the value is in the list, a comparison as its
\* operator states.
C9_CompiledSemantics ==
    (/\ call.op = "_build_where_clause"
     /\ Len(call.criteria) > 0
     /\ ShapesOK(call.criteria)) =>
        /\ ~call.out.raised
        /\ SqlOK(call.out.where_sql, call.out.params)
        /\ \A row \in RowsOver(call.criteria, 1, NullRow) :
              SqlTrue(call.out.where_sql, call.out.params, row)
                  <=> Satisfies(call.criteria, call.logic, row)

\* an OR screen of a between predicate and a second predicate, with a row that
\* sits on the upper end of the interval and fails the second predicate
C9_Witness ==
    /\ call.op = "_build_where_clause"
    /\ call.logic = "OR"
    /\ Len(call.criteria) = 2
    /\ ShapesOK(call.criteria)
    /\ call.criteria[1].cond.operator = "between"
    /\ call.criteria[1].cond.min < call.criteria[1].cond.max
    /\ \E row \in RowsOver(call.criteria, 1, NullRow) :
          /\ row[FieldColumn(call.criteria[1].field)] = call.criteria[1].cond.max
          /\ ~Holds(call.criteria[2].field, call.criteria[2].cond, row)
          /\ SqlTrue(call.out.where_sql, call.out.params, row)

(***************************************************************************)
(* The custom screen registry: CustomScreenBuilder over the custom_screens *)
(* table, and the catalog of screener/criteria.py.                         *)
(***************************************************************************)
\* json.dumps(criteria) and json.loads(text): the criteria of the model are
\* dicts of str, int and list, which JSON writes and reads back unchanged; the
\* text is kept apart from the dict it encodes
json_dumps(criteria) == [json |-> criteria]
json_loads(text) == text.json

\* str.upper() on the words of the model
upper(word) ==
    CASE word \in {"AND", "and"} -> "AND"
      [] word \in {"OR", "or"} -> "OR"
      [] word \in {"TICK", "tick"} -> "TICK"
      [] word \in {"ACME", "acme"} -> "ACME"

None == "<None>"

\* a lookup that finds nothing
FirstNamedNever(table, name) == 0

\* session.query(CustomScreen).filter_by(name=name).first(): the position of
\* the first row of that name, 0 if there is none
FirstNamed(table, name) ==
    LET hits == {i \in 1..Len(table) : table[i].name = name}
    IN  IF hits = {} THEN 0 ELSE CHOOSE i \in hits : \A j \in hits : i <= j

\* Database.save_custom_screen: overwrite the existing row of that name, or
\* add a row
save_custom_screen(table, screen_data) ==
    LET existing == FirstNamed(table, screen_data.name)
        row == [name |-> screen_data.name,
                description |-> screen_data.description,
                criteria |-> screen_data.criteria,
                logic |-> screen_data.logic]
    IN  IF existing # 0 THEN [table EXCEPT ![existing] = row]
        ELSE Append(table, row)

\* Database.get_custom_screen: the row as a dict ([found |-> TRUE, row |-> ...]),
\* or None ([found |-> FALSE])
get_custom_screen(table, name) ==
    LET screen == FirstNamed(table, name)
    IN  IF screen # 0 THEN [found |-> TRUE, row |-> table[screen]]
        ELSE [found |-> FALSE]

\* Database.delete_custom_screen: session.delete of the first row of that name
delete_custom_screen(table, name) ==
    LET screen == FirstNamed(table, name)
    IN  IF screen # 0
        THEN [i \in 1..(Len(table) - 1) |-> IF i < screen THEN table[i] ELSE table[i + 1]]
        ELSE table

\* the body of create_screen: [ok, table] where ok is the value returned
create_screen_skipping_validation(table, name, description, criteria, logic) ==
    [ok |-> TRUE,
     table |-> save_custom_screen(table,
                  [name |-> name, description |-> description,
                   criteria |-> json_dumps(criteria), logic |-> upper(logic)])]

create_screen(table, name, description, criteria, logic) ==
    IF validate_raises(criteria)
    THEN [ok |-> FALSE, table |-> table]
    ELSE [ok |-> TRUE,
          table |-> save_custom_screen(table,
                       [name |-> name, description |-> description,
                        criteria |-> json_dumps(criteria), logic |-> upper(logic)])]

\* the body of update_screen; description, criteria and logic may be absent
\* (None, the empty dict <<>>)
update_screen(table, name, description, criteria, logic) ==
    LET existing == get_custom_screen(table, name)
    IN  IF ~existing.found THEN [ok |-> FALSE, table |-> table]
        ELSE IF Len(criteria) > 0 /\ validate_raises(criteria)
        THEN [ok |-> FALSE, table |-> table]
        ELSE [ok |-> TRUE,
              table |-> save_custom_screen(table,
                           [name |-> name,
                            description |-> IF description # None THEN description
                                            ELSE existing.row.description,
                            criteria |-> IF Len(criteria) > 0 THEN json_dumps(criteria)
                                         ELSE existing.row.criteria,
                            logic |-> IF logic # None THEN upper(logic)
                                      ELSE existing.row.logic])]

\* criteria[field].update(condition) for every overridden field of the template
ApplyOverrides(criteria, overrides) ==
    [i \in 1..Len(criteria) |->
        IF criteria[i].field \in Fields(overrides)
        THEN Entry(criteria[i].field,
                   DictUpdate(criteria[i].cond, CondOf(overrides, criteria[i].field)))
        ELSE criteria[i]]

(***************************************************************************)
(* Calls on the registry.  A call is made when no call is in progress; its *)
(* arguments and the value it returns stay in `call` until the caller has  *)
(* taken the result.                                                       *)
(***************************************************************************)
Idle == call.op = "none"

Names == {"s1"}

\* criteria dicts passed to create_screen and update_screen, by name
CriteriaInputs ==
    {"cmp1", "cmp2", "between", "in", "bad_field", "bad_operator", "no_value",
     "no_operator", "partly_bad", "empty"}

MakeCriteria(k) ==
    CASE k = "cmp1" -> <<Entry("roe", [operator |-> ">", value |-> 1])>>
      [] k = "cmp2" -> <<Entry("roe", [operator |-> ">=", value |-> 1]),
                         Entry("market_cap", [operator |-> "!=", value |-> 2])>>
      [] k = "between" -> <<Entry("roe", [operator |-> "between", min |-> 1, max |-> 2])>>
      [] k = "in" -> <<Entry("price", [operator |-> "in", value |-> <<1, 2>>])>>
      [] k = "bad_field" -> <<Entry("sector", [operator |-> "=", value |-> "IT"])>>
      [] k = "bad_operator" -> <<Entry("roe", [operator |-> "approx", value |-> 1])>>
      [] k = "no_value" -> <<Entry("roe", [operator |-> ">"])>>
      [] k = "no_operator" -> <<Entry("roe", [value |-> 1])>>
      [] k = "partly_bad" -> <<Entry("roe", [operator |-> ">", value |-> 1]),
                               Entry("volume", [operator |-> ">", value |-> 1])>>
      [] k = "empty" -> <<>>

\* parameter_overrides passed to create_from_template, by name
OverrideInputs == {"none", "operator", "value", "other_field"}

MakeOverrides(k) ==
    CASE k = "none" -> <<>>
      [] k = "operator" -> <<Entry("altman_z_score", [operator |-> "approx"])>>
      [] k = "value" -> <<Entry("altman_z_score", [value |-> 30])>>
      [] k = "other_field" -> <<Entry("npm", [value |-> 1])>>

InitRegistry ==
    /\ EmptyTables
    /\ PREDEFINED_SCREENS = Catalog
    /\ call = [op |-> "none"]

\* CustomScreenBuilder.create_screen
CreateScreen ==
    /\ Idle
    /\ \E name \in Names, description \in {"d", "d1"}, k \in CriteriaInputs,
          logic \in {"AND", "or"} :
          LET criteria == MakeCriteria(k)
              r == create_screen(custom_screens, name, description, criteria, logic)
          IN  /\ custom_screens' = r.table
              /\ call' = [op |-> "create_screen", name |-> name,
                          description |-> description, criteria |-> criteria,
                          logic |-> logic,
                          existed |-> get_custom_screen(custom_screens, name).found,
                          ok |-> r.ok]
    /\ UNCHANGED <<company_master, snapshots, portfolio, PREDEFINED_SCREENS,
                 audit_log, backtest_results,
                 technical_indicators, cache, now>>

\* CustomScreenBuilder.update_screen
UpdateScreen ==
    /\ Idle
    /\ \E name \in Names, description \in {None, "d2"}, k \in CriteriaInputs,
          logic \in {None, "or"} :
          LET criteria == MakeCriteria(k)
              r == update_screen(custom_screens, name, description, criteria, logic)
          IN  /\ custom_screens' = r.table
              /\ call' = [op |-> "update_screen", name |-> name,
                          criteria |-> criteria, ok |-> r.ok]
    /\ UNCHANGED <<company_master, snapshots, portfolio, PREDEFINED_SCREENS,
                 audit_log, backtest_results,
                 technical_indicators, cache, now>>

\* CustomScreenBuilder.delete_screen
DeleteScreen ==
    /\ Idle
    /\ \E name \in Names :
          /\ custom_screens' = delete_custom_screen(custom_screens, name)
          /\ call' = [op |-> "delete_screen", name |-> name, criteria |-> <<>>,
                      ok |-> TRUE]
    /\ UNCHANGED <<company_master, snapshots, portfolio, PREDEFINED_SCREENS,
                 audit_log, backtest_results,
                 technical_indicators, cache, now>>

\* CustomScreenBuilder.create_from_template.  template['criteria'].copy() is a
\* shallow copy: the conditions it holds are the catalog's own dicts, so
\* criteria[field].update(condition) changes the catalog entry as well.
CreateFromTemplate ==
    /\ Idle
    /\ \E template_name \in (DOMAIN Catalog) \cup {"momentum"}, custom_name \in Names,
          k \in OverrideInputs :
          IF template_name \notin DOMAIN PREDEFINED_SCREENS
          THEN /\ call' = [op |-> "create_from_template", name |-> custom_name,
                           criteria |-> <<>>, ok |-> FALSE]
               /\ UNCHANGED <<custom_screens, PREDEFINED_SCREENS>>
          ELSE LET template == PREDEFINED_SCREENS[template_name]
                   criteria == ApplyOverrides(template.criteria, MakeOverrides(k))
                   r == create_screen(custom_screens, custom_name,
                                      "Custom screen based on " \o template.name,
                                      criteria, template.logic)
               IN  /\ PREDEFINED_SCREENS' =
                          [PREDEFINED_SCREENS EXCEPT ![template_name].criteria = criteria]
                   /\ custom_screens' = r.table
                   /\ call' = [op |-> "create_from_template", name |-> custom_name,
                               criteria |-> criteria, ok |-> r.ok]
    /\ UNCHANGED <<company_master, snapshots, portfolio, audit_log, backtest_results,
                 technical_indicators, cache, now>>

\* the caller takes the result
Return ==
    /\ ~Idle
    /\ call' = [op |-> "none"]
    /\ UNCHANGED <<company_master, snapshots, portfolio, custom_screens, PREDEFINED_SCREENS,
                 audit_log, backtest_results,
                 technical_indicators, cache, now>>

NextRegistry ==
    \/ CreateScreen
    \/ UpdateScreen
    \/ DeleteScreen
    \/ CreateFromTemplate
    \/ Return

SpecRegistry == InitRegistry /\ [][NextRegistry]_vars

(***************************************************************************)
(* Properties of validation and of the registry.                           *)
(***************************************************************************)
RegistryCalls == {"create_screen", "update_screen", "create_from_template"}

\* a predicate with a field outside the vocabulary or an operator outside the
\* eight recognised ones
OutsideVocabulary(field, cond) ==
    \/ field \notin valid_fields
    \/ "operator" \notin DOMAIN cond
    \/ cond.operator \notin RecognisedOperators

\* C5: a criteria set in which some predicate has a field outside the metric
\* vocabulary or an operator outside {<, >, <=, >=, =, !=, between, in} is
\* rejected by validation: the create or update that carries it reports failure.
C5_OutsideVocabularyRejected ==
    (/\ call.op \in RegistryCalls
     /\ \E i \in 1..Len(call.criteria) :
           OutsideVocabulary(call.criteria[i].field, call.criteria[i].cond)) =>
        ~call.ok

\* a create whose first predicate is valid and whose second has an unknown
\* field, and one whose predicate has an unknown operator
C5_Witness ==
    /\ call.op = "create_screen"
    /\ ~call.ok
    /\ Len(call.criteria) = 2
    /\ ~EntryInvalid(call.criteria[1].field, call.criteria[1].cond)
    /\ call.criteria[2].field \notin valid_fields

\* C6: validation accepts every well-formed criteria set (vocabulary fields,
\* one of the eight operators, the operand shape that matches it), and
\* create_screen then stores the screen.
C6_WellFormedAccepted ==
    (call.op = "create_screen" /\ WellFormed(call.criteria)) =>
        /\ call.ok
        /\ FirstNamed(custom_screens, call.name) # 0
        /\ json_loads(custom_screens[FirstNamed(custom_screens, call.name)].criteria)
              = call.criteria

StoredWellFormed ==
    \A n \in 1..Len(custom_screens) :
        /\ ~validate_raises(json_loads(custom_screens[n].criteria))
        /\ WellFormed(json_loads(custom_screens[n].criteria))

\* a step that makes a create or an update with an ill-formed criteria set
\* reports failure and leaves the registry as it was
RejectedWhole ==
    (/\ call'.op \in RegistryCalls
     /\ Len(call'.criteria) > 0
     /\ ~WellFormed(call'.criteria)) =>
        /\ ~call'.ok
        /\ custom_screens' = custom_screens

\* C7: after any sequence of create_screen, update_screen, create_from_template
\* and delete_screen calls the criteria of every stored screen pass validation,
\* and a create or update whose criteria contain an invalid predicate reports
\* failure and leaves the registry unchanged.
C7_StoredScreensWellFormed == [](StoredWellFormed) /\ [][RejectedWhole]_vars

\* a stored screen has survived an update rejected for an invalid predicate,
\* after a template override had put an unknown operator into the catalog
C7_Witness ==
    /\ call.op = "update_screen"
    /\ ~call.ok
    /\ Len(call.criteria) = 2
    /\ ~WellFormed(call.criteria)
    /\ FirstNamed(custom_screens, call.name) # 0
    /\ PREDEFINED_SCREENS # Catalog

(***************************************************************************)
(* The portfolio: PortfolioTracker.add_holding and remove_holding over the *)
(* portfolio table.  The table has no unique constraint other than its id  *)
(* (models.Portfolio), and its foreign key is not enforced by SQLite.      *)
(***************************************************************************)
\* the id SQLite gives to an inserted row: one more than the largest in use
NextId(table) ==
    IF Len(table) = 0 THEN 1
    ELSE 1 + (CHOOSE m \in {table[i].id : i \in 1..Len(table)} :
                 \A i \in 1..Len(table) : table[i].id <= m)

\* Database.add_to_portfolio: session.add(Portfolio(**portfolio_data)); the
\* method has no return statement
add_to_portfolio(table, portfolio_data) ==
    [returned |-> None,
     table |-> Append(table, [id |-> NextId(table),
                              ticker |-> portfolio_data.ticker,
                              quantity |-> portfolio_data.quantity,
                              purchase_price |-> portfolio_data.purchase_price,
                              purchase_date |-> portfolio_data.purchase_date,
                              current_price |-> portfolio_data.current_price])]

\* Database.remove_from_portfolio
remove_from_portfolio(table, portfolio_id) ==
    SelectSeq(table, LAMBDA h : h.id # portfolio_id)

\* the four fields that identify a holding
HoldingKey(h) == <<h.ticker, h.quantity, h.purchase_price, h.purchase_date>>

HasHolding(table, key) == \E i \in 1..Len(table) : HoldingKey(table[i]) = key

InitPortfolio ==
    /\ EmptyTables
    /\ PREDEFINED_SCREENS = Catalog
    /\ call = [op |-> "none"]

\* PortfolioTracker.add_holding; _get_current_price returns the price the
\* provider quotes, or None when the lookup fails
AddHolding ==
    /\ Idle
    /\ Len(portfolio) < MaxHoldings
    /\ \E ticker \in {"TICK", "tick", "ACME"}, quantity \in {10}, purchase_price \in {100, 101},
          purchase_date \in {1}, current_price \in {NULL, 105} :
          LET portfolio_data == [ticker |-> upper(ticker), quantity |-> quantity,
                                 purchase_price |-> purchase_price,
                                 current_price |-> current_price,
                                 purchase_date |-> purchase_date]
              r == add_to_portfolio(portfolio, portfolio_data)
              success == r.returned
          IN  /\ portfolio' = r.table
              /\ call' = [op |-> "add_holding",
                          key |-> HoldingKey(portfolio_data),
                          existed |-> HasHolding(portfolio, HoldingKey(portfolio_data)),
                          stored |-> Len(r.table) = Len(portfolio) + 1,
                          ok |-> success # None]
    /\ UNCHANGED <<company_master, snapshots, custom_screens, PREDEFINED_SCREENS,
                 audit_log, backtest_results,
                 technical_indicators, cache, now>>

\* PortfolioTracker.remove_holding
RemoveHolding ==
    /\ Idle
    /\ \E portfolio_id \in 1..MaxHoldings :
          /\ portfolio' = remove_from_portfolio(portfolio, portfolio_id)
          /\ call' = [op |-> "remove_holding", id |-> portfolio_id, ok |-> TRUE]
    /\ UNCHANGED <<company_master, snapshots, custom_screens, PREDEFINED_SCREENS,
                 audit_log, backtest_results,
                 technical_indicators, cache, now>>

NextPortfolio ==
    \/ AddHolding
    \/ RemoveHolding
    \/ Return

SpecPortfolio == InitPortfolio /\ [][NextPortfolio]_vars

\* C3: after any sequence of add_holding and remove_holding calls no two
\* holdings of the portfolio have the same (ticker, quantity, purchase price,
\* purchase date).
C3_NoDuplicateHoldings ==
    \A i \in 1..Len(portfolio) : \A j \in 1..Len(portfolio) :
        i # j => HoldingKey(portfolio[i]) # HoldingKey(portfolio[j])

\* C4: add_holding reports success exactly when the holding was stored, and
\* rejection exactly when a holding with the same (ticker, quantity, purchase
\* price, purchase date) already existed; a rejected add stores nothing.
C4_AddOutcome ==
    call.op = "add_holding" =>
        /\ call.ok <=> call.stored
        /\ ~call.ok <=> call.existed

(***************************************************************************)
(* The dataset and the screening query of ScreeningEngine.apply_criteria.  *)
(* Of each snapshot table the model carries the key (ticker, as_of_date)   *)
(* and one metric column: fundamentals.price, derived_metrics.roe,         *)
(* growth_metrics.revenue_cagr_3y, quality_metrics.promoter_holding.  The  *)
(* id of a snapshot row is its position in the table.                      *)
(***************************************************************************)
Families == {"f", "d", "g", "q"}

MetricOf(fam) ==
    CASE fam = "f" -> "f.price"
      [] fam = "d" -> "d.roe"
      [] fam = "g" -> "g.revenue_cagr_3y"
      [] fam = "q" -> "q.promoter_holding"

SnapshotVals == {1, 2}

\* the companies the dataset is seeded with
SeedCompanies ==
    [TICK |-> [sector |-> "IT", market_cap |-> 2],
     ACME |-> [sector |-> "Bank", market_cap |-> 1]]

\* Database.add_fundamentals, add_derived_metrics, add_growth_metrics and
\* add_quality_metrics: session.add of one more row
append_snapshot(tables, fam, ticker, as_of_date, val) ==
    [tables EXCEPT ![fam] = Append(@, [ticker |-> ticker, as_of_date |-> as_of_date,
                                       val |-> val])]

TotalRows(tables) ==
    Len(tables["f"]) + Len(tables["d"]) + Len(tables["g"]) + Len(tables["q"])

\* the rows of a snapshot table that LEFT JOIN ... ON c.ticker = x.ticker pairs
\* with a company: every row of the ticker, or one all-NULL row (0) if none
AllRowsOf(tables, fam, ticker) ==
    LET mine == {i \in 1..Len(tables[fam]) : tables[fam][i].ticker = ticker}
    IN  IF mine = {} THEN {0} ELSE mine

ValAt(tables, fam, i) == IF i = 0 THEN NULL ELSE tables[fam][i].val

\* the rows built from each company and, of each snapshot table, one of the
\* rows rowsOf pairs with it, projected on the selected columns
JoinOver(companies, tables, rowsOf) ==
    UNION {
        {[c \in TextColumns \cup NumColumns |->
            CASE c = "c.ticker" -> t
              [] c = "c.sector" -> companies[t].sector
              [] c = "c.market_cap" -> companies[t].market_cap
              [] c = "f.price" -> ValAt(tables, "f", pick[1])
              [] c = "d.roe" -> ValAt(tables, "d", pick[2])
              [] c = "g.revenue_cagr_3y" -> ValAt(tables, "g", pick[3])
              [] c = "q.promoter_holding" -> ValAt(tables, "q", pick[4])] :
         pick \in rowsOf[<<"f", t>>] \X rowsOf[<<"d", t>>]
                  \X rowsOf[<<"g", t>>] \X rowsOf[<<"q", t>>]} :
        t \in DOMAIN companies}

\* FROM company_master c LEFT JOIN fundamentals f ON c.ticker = f.ticker ...
\* LEFT JOIN quality_metrics q ON c.ticker = q.ticker
Joined(companies, tables) ==
    JoinOver(companies, tables,
             [p \in Families \X DOMAIN companies |-> AllRowsOf(tables, p[1], p[2])])

\* ORDER BY d.roe DESC, c.market_cap DESC (SQLite sorts NULL below every number)
InOrder(r1, r2) ==
    \/ r1["d.roe"] > r2["d.roe"]
    \/ r1["d.roe"] = r2["d.roe"] /\ r1["c.market_cap"] >= r2["c.market_cap"]

\* the orders in which the database may return the set of rows
Orderings(rows) ==
    LET n == Cardinality(rows)
    IN  {s \in [1..n -> rows] :
            /\ \A i \in 1..n : \A j \in 1..n : i < j => s[i] # s[j] /\ InOrder(s[i], s[j])}

\* the query of apply_criteria: SELECT DISTINCT ... WHERE where_sql ORDER BY ...
screen_rows(companies, tables, where_sql, params) ==
    {r \in Joined(companies, tables) : SqlTrue(where_sql, params, r)}

\* the value of a column in a result row, NULL when the row does not carry it
Col(row, c) == IF c \in DOMAIN row THEN row[c] ELSE NULL

\* the values of a numeric column that are present, in row order
PresentVals(results, c) ==
    LET RECURSIVE from(_)
        from(i) == IF i > Len(results) THEN <<>>
                   ELSE IF Col(results[i], c) = NULL THEN from(i + 1)
                   ELSE <<Col(results[i], c)>> \o from(i + 1)
    IN  from(1)

RECURSIVE SeqSum(_)
SeqSum(vals) == IF Len(vals) = 0 THEN 0 ELSE vals[1] + SeqSum(Tail(vals))

\* Series.mean(): the mean as the fraction sum / count, NaN (count 0) when
\* no value is present
pandas_mean(results, c) ==
    LET vals == PresentVals(results, c)
    IN  [sum |-> SeqSum(vals), count |-> Len(vals)]

\* Series.median(): twice the median of the values present (the middle value
\* twice, or the sum of the two middle values), NaN when none is present
pandas_median(results, c) ==
    LET vals == PresentVals(results, c)
        n == Len(vals)
        sorted == CHOOSE t \in [1..n -> {vals[i] : i \in 1..n}] :
                     /\ \A i \in 1..n, j \in 1..n : i < j => t[i] <= t[j]
                     /\ \A v \in {vals[i] : i \in 1..n} :
                           Cardinality({i \in 1..n : t[i] = v})
                               = Cardinality({i \in 1..n : vals[i] = v})
    IN  IF n = 0 THEN [twice |-> 0, count |-> 0]
        ELSE [twice |-> sorted[(n + 1) \div 2] + sorted[(n + 2) \div 2], count |-> n]

\* Series.value_counts().to_dict(): the sectors present with their counts
value_counts(results) ==
    LET present == {results[i]["c.sector"] : i \in 1..Len(results)} \ {NoText}
    IN  [x \in present |-> Cardinality({i \in 1..Len(results) :
                                          results[i]["c.sector"] = x})]

\* ScreeningEngine.get_screen_statistics; None is written NaN-like as count 0
get_screen_statistics(results) ==
    IF Len(results) = 0
    THEN [total_stocks |-> 0,
          sectors |-> EmptyDict,
          avg_roe |-> [sum |-> 0, count |-> 0],
          median_pb |-> [twice |-> 0, count |-> 0],
          median_de |-> [twice |-> 0, count |-> 0]]
    ELSE [total_stocks |-> Len(results),
          sectors |-> value_counts(results),
          avg_roe |-> pandas_mean(results, "d.roe"),
          median_pb |-> pandas_median(results, "d.price_to_book"),
          median_de |-> pandas_median(results, "d.debt_equity"),
          avg_market_cap |-> pandas_mean(results, "c.market_cap")]

(***************************************************************************)
(* Screening over a growing dataset.                                       *)
(***************************************************************************)
ScreenCriteria(k) ==
    CASE k = "roe_cap" -> <<Entry("roe", [operator |-> ">=", value |-> 2]),
                            Entry("market_cap", [operator |-> ">", value |-> 1])>>
      [] k = "quality" -> <<Entry("price", [operator |-> "between", min |-> 1, max |-> 1]),
                            Entry("revenue_cagr_3y", [operator |-> ">=", value |-> 2]),
                            Entry("promoter_holding", [operator |-> "in", value |-> <<2>>])>>
      [] k = "sector" -> <<Entry("sector", [operator |-> "in", value |-> <<"IT">>])>>
      [] k = "empty" -> <<>>

NoFilter == EmptyDict
SectorFilter == [sector |-> [list |-> <<"Bank">>]]
BothFilters == [sector |-> [str |-> "IT"], min_market_cap |-> 2]

\* the calls of apply_criteria the model makes
ScreenInputs ==
    {[k |-> "roe_cap", logic |-> l, filters |-> f] :
        l \in Logics, f \in {NoFilter, SectorFilter, BothFilters}}
    \cup {[k |-> k, logic |-> "OR", filters |-> f] :
        k \in {"quality", "sector"}, f \in {NoFilter, SectorFilter}}
    \cup {[k |-> "empty", logic |-> "AND", filters |-> NoFilter]}

InitScreen ==
    /\ company_master = SeedCompanies
    /\ snapshots = [fam \in Families |-> <<>>]
    /\ portfolio = <<>>
    /\ custom_screens = <<>>
    /\ PREDEFINED_SCREENS = Catalog
    /\ audit_log = <<>>
    /\ backtest_results = <<>>
    /\ technical_indicators = <<>>
    /\ cache = EmptyDict
    /\ now = 0
    /\ call = [op |-> "none"]

AddSnapshot(fam) ==
    /\ Idle
    /\ TotalRows(snapshots) < MaxRows
    /\ \E ticker \in DOMAIN company_master, as_of_date \in Dates, val \in SnapshotVals :
          snapshots' = append_snapshot(snapshots, fam, ticker, as_of_date, val)
    /\ UNCHANGED <<company_master, portfolio, custom_screens, PREDEFINED_SCREENS,
                 audit_log, backtest_results,
                 technical_indicators, cache, now, call>>

AddFundamentals == AddSnapshot("f")

AddDerivedMetrics == AddSnapshot("d")

AddGrowthMetrics == AddSnapshot("g")

AddQualityMetrics == AddSnapshot("q")

\* ScreeningEngine.apply_criteria: compile, add the filters, run the query.
\* The set of its possible outcomes: it raises (queried tells whether
\* execute_query was reached), or it returns the rows in one of the orders the
\* database may give them.
apply_criteria(companies, tables, criteria, logic, filters) ==
    LET w == final_where(criteria, logic, filters)
    IN  IF w.raised
        THEN {[raised |-> TRUE, queried |-> FALSE, rows |-> <<>>]}
        ELSE IF ~SqlOK(w.where_sql, w.params)
        THEN {[raised |-> TRUE, queried |-> TRUE, rows |-> <<>>]}
        ELSE {[raised |-> FALSE, queried |-> TRUE, rows |-> rows] :
                 rows \in Orderings(screen_rows(companies, tables, w.where_sql, w.params))}

ApplyCriteria ==
    /\ Idle
    /\ \E in \in ScreenInputs :
          LET criteria == ScreenCriteria(in.k)
              request == [op |-> "apply_criteria", criteria |-> criteria,
                          logic |-> in.logic, filters |-> in.filters]
          IN  \E o \in apply_criteria(company_master, snapshots, criteria,
                                      in.logic, in.filters) :
                  call' = o @@ request
    /\ Untouched

NextScreen ==
    \/ AddFundamentals
    \/ AddDerivedMetrics
    \/ AddGrowthMetrics
    \/ AddQualityMetrics
    \/ ApplyCriteria
    \/ Return

SpecScreen == InitScreen /\ [][NextScreen]_vars

Screened == call.op = "apply_criteria" /\ ~call.raised

RowSet(rows) == {rows[i] : i \in 1..Len(rows)}

\* the rows of the ticker that carry its greatest as_of_date in the table, or
\* the all-NULL row if it has none
GreatestDateRows(tables, fam, ticker) ==
    LET mine == {i \in 1..Len(tables[fam]) : tables[fam][i].ticker = ticker}
    IN  IF mine = {} THEN {0}
        ELSE {i \in mine : \A j \in mine :
                 tables[fam][j].as_of_date <= tables[fam][i].as_of_date}

\* the rows of the dataset built from each instrument's latest snapshots
\* that the compiled conditions of the call keep
LatestMatching ==
    LET w == final_where(call.criteria, call.logic, call.filters)
        latest == [p \in Families \X DOMAIN company_master |->
                      GreatestDateRows(snapshots, p[1], p[2])]
    IN  {r \in JoinOver(company_master, snapshots, latest) :
            SqlTrue(w.where_sql, w.params, r)}

\* C1: for every instrument and snapshot family, screening uses the single
\* snapshot row with the greatest as-of date: the rows a screening run returns
\* are the rows of the latest snapshots that meet its conditions.
C1_LatestSnapshotOnly ==
    Screened => RowSet(call.rows) = LatestMatching

\* C2: no instrument appears more than once in a screening result, and the
\* total_stocks statistic equals the number of distinct matching instruments.
C2_OneRowPerInstrument ==
    Screened =>
        /\ \A i \in 1..Len(call.rows) : \A j \in 1..Len(call.rows) :
              i # j => call.rows[i]["c.ticker"] # call.rows[j]["c.ticker"]
        /\ get_screen_statistics(call.rows).total_stocks
              = Cardinality({call.rows[i]["c.ticker"] : i \in 1..Len(call.rows)})

\* what the additional filters that are given ask of a row
FilterHolds(filters, row) ==
    /\ HasSector(filters) =>
          \E i \in 1..Len(SectorList(filters)) : row["c.sector"] = SectorList(filters)[i]
    /\ HasMinCap(filters) =>
          row["c.market_cap"] # NULL /\ row["c.market_cap"] >= filters.min_market_cap

\* the joined rows that satisfy the criteria of the call under its logic and
\* every additional filter given
ScreenAndFilters ==
    {r \in Joined(company_master, snapshots) :
        /\ Satisfies(call.criteria, call.logic, r)
        /\ FilterHolds(call.filters, r)}

\* C10: for every screen, under AND as under OR, and every set of additional
\* filters (sector allow-list, minimum market cap), the result of
\* apply_criteria is exactly the set of rows that satisfy the screen's
\* criteria under its own logic and also satisfy every additional filter.
C10_FiltersRestrictWholeScreen ==
    (/\ call.op = "apply_criteria"
     /\ Len(call.criteria) > 0
     /\ ShapesOK(call.criteria)) =>
        /\ ~call.raised
        /\ RowSet(call.rows) = ScreenAndFilters

\* the same over the screens whose fields are all of the metric vocabulary
\* of _validate_criteria (which has no sector): the parentheses of
\* apply_criteria keep a filter from becoming an alternative of an OR screen
FiltersRestrictVocabularyScreens ==
    (/\ call.op = "apply_criteria"
     /\ Len(call.criteria) > 0
     /\ WellFormed(call.criteria)) =>
        /\ ~call.raised
        /\ RowSet(call.rows) = ScreenAndFilters

(***************************************************************************)
(* Screen runs: ScreeningEngine.run_predefined_screen and run_custom_screen,*)
(* CustomScreenBuilder.run_screen, and the audit log.                       *)
(***************************************************************************)
MaxAudit == 2

\* a lookup that falls back on the value screen for an unknown key
get_screen_config_with_default(catalog, screen_name) ==
    [raised |-> FALSE,
     config |-> IF screen_name \in DOMAIN catalog THEN catalog[screen_name]
                ELSE catalog["value"]]

\* screener.criteria.get_screen_config: the config, or ValueError
get_screen_config(catalog, screen_name) ==
    IF screen_name \notin DOMAIN catalog
    THEN [raised |-> TRUE, error |-> "Unknown screen: " \o screen_name]
    ELSE [raised |-> FALSE, config |-> catalog[screen_name]]

\* Database.log_operation
log_operation(table, operation, details, status) ==
    Append(table, [operation |-> operation, details |-> details,
                   user |-> "system", status |-> status])

\* the message of the error the database raises for a statement it rejects
QueryError == "OperationalError"

\* the message of the error raised while the WHERE text is built
BuildError == "KeyError or TypeError"

\* ScreeningEngine.run_predefined_screen: [log, out] for each possible outcome
run_predefined_screen(companies, tables, catalog, log, screen_name, filters) ==
    LET c == get_screen_config(catalog, screen_name)
        failure(error, queried) ==
            [log |-> log_operation(log, "screen_run",
                        "Screen: " \o screen_name \o ", Error: " \o error, "failure"),
             out |-> [raised |-> TRUE, error |-> error, queried |-> queried,
                      rows |-> <<>>]]
    IN  IF c.raised THEN {failure(c.error, FALSE)}
        ELSE {IF o.raised
              THEN failure(IF o.queried THEN QueryError ELSE BuildError, o.queried)
              ELSE [log |-> log_operation(log, "screen_run",
                               "Screen: " \o screen_name \o ", Results: "
                                   \o ToString(Len(o.rows)), "success"),
                    out |-> [raised |-> FALSE, error |-> "", queried |-> TRUE,
                             rows |-> o.rows]] :
              o \in apply_criteria(companies, tables, c.config.criteria,
                                   c.config.logic, filters)}

\* ScreeningEngine.run_custom_screen(criteria, logic): apply_criteria without
\* additional filters
run_custom_screen(companies, tables, criteria, logic) ==
    apply_criteria(companies, tables, criteria, logic, EmptyDict)

\* CustomScreenBuilder.get_screen: the stored row with its criteria parsed
get_screen(table, name) ==
    LET screen == get_custom_screen(table, name)
    IN  IF screen.found
        THEN [found |-> TRUE,
              row |-> [screen.row EXCEPT !.criteria = json_loads(@)]]
        ELSE screen

\* the dict screen_config of run_screen as run_custom_screen iterates over it
\* when it is passed as criteria: keys name, description, criteria, logic,
\* whose values are two str, a dict of conditions and a str
ConfigItems(screen) ==
    <<Entry("name", [str |-> screen.name]),
      Entry("description", [str |-> screen.description]),
      Entry("criteria", [dict |-> screen.criteria]),
      Entry("logic", [str |-> screen.logic])>>

\* the call of the engine in run_screen, as the stored criteria and logic
\* would be passed
RunStoredCriteria(companies, tables, screen, additional_filters) ==
    apply_criteria(companies, tables, screen.criteria, screen.logic, additional_filters)

\* self.engine.run_custom_screen(screen_config, additional_filters)
RunStored(companies, tables, screen, additional_filters) ==
    run_custom_screen(companies, tables, ConfigItems(screen), additional_filters)

\* CustomScreenBuilder.run_screen: the outcomes; none is True for a None result
run_screen(companies, tables, table, name, additional_filters) ==
    LET screen == get_screen(table, name)
    IN  IF ~screen.found THEN {[found |-> FALSE, none |-> TRUE, rows |-> <<>>]}
        ELSE {IF o.raised THEN [found |-> TRUE, none |-> TRUE, rows |-> <<>>]
                          ELSE [found |-> TRUE, none |-> FALSE, rows |-> o.rows] :
              o \in RunStored(companies, tables, screen.row, additional_filters)}

\* a dataset with one derived_metrics row for each seeded company
SeedSnapshots ==
    [fam \in Families |->
        IF fam = "d" THEN <<[ticker |-> "TICK", as_of_date |-> 1, val |-> 2],
                            [ticker |-> "ACME", as_of_date |-> 1, val |-> 1]>>
        ELSE <<>>]

InitRuns ==
    /\ company_master = SeedCompanies
    /\ snapshots = SeedSnapshots
    /\ portfolio = <<>>
    /\ custom_screens = <<>>
    /\ PREDEFINED_SCREENS = Catalog
    /\ audit_log = <<>>
    /\ backtest_results = <<>>
    /\ technical_indicators = <<>>
    /\ cache = EmptyDict
    /\ now = 0
    /\ call = [op |-> "none"]

\* criteria dicts passed to run_custom_screen, by name
RunCriteriaInputs == {"roe_cap", "empty", "no_operator"}

RunCriteria(k) ==
    IF k = "no_operator" THEN MakeCriteria("no_operator") ELSE ScreenCriteria(k)

RunPredefinedScreen ==
    /\ Idle
    /\ Len(audit_log) < MaxAudit
    /\ \E screen_name \in (DOMAIN Catalog) \cup {"momentum"},
          filters \in {NoFilter, SectorFilter} :
          \E r \in run_predefined_screen(company_master, snapshots, PREDEFINED_SCREENS,
                                         audit_log, screen_name, filters) :
              /\ audit_log' = r.log
              /\ call' = [op |-> "run_predefined_screen", screen |-> screen_name,
                          filters |-> filters] @@ r.out
    /\ UNCHANGED <<company_master, snapshots, portfolio, custom_screens,
                   PREDEFINED_SCREENS, backtest_results,
                   technical_indicators, cache, now>>

RunCustomScreen ==
    /\ Idle
    /\ \E k \in RunCriteriaInputs, logic \in Logics :
          \E o \in run_custom_screen(company_master, snapshots, RunCriteria(k), logic) :
              call' = [op |-> "run_custom_screen", screen |-> k, logic |-> logic,
                       error |-> IF ~o.raised THEN ""
                                 ELSE IF o.queried THEN QueryError ELSE BuildError] @@ o
    /\ Untouched

RunScreen ==
    /\ Idle
    /\ \E name \in Names, additional_filters \in {NoFilter, SectorFilter} :
          \E r \in run_screen(company_master, snapshots, custom_screens, name,
                              additional_filters) :
              call' = [op |-> "run_screen", screen |-> name,
                       filters |-> additional_filters, raised |-> FALSE,
                       error |-> ""] @@ r
    /\ Untouched

NextRuns ==
    \/ CreateScreen
    \/ DeleteScreen
    \/ RunPredefinedScreen
    \/ RunCustomScreen
    \/ RunScreen
    \/ Return

SpecRuns == InitRuns /\ [][NextRuns]_vars

(***************************************************************************)
(* Properties of the runs.                                                 *)
(***************************************************************************)
CatalogKeys == {"value", "growth", "balanced", "quality", "turnaround"}

\* C11: run_predefined_screen with a key that is not one of the catalog keys
\* fails with an unknown-screen error that reaches the caller, executes no
\* query against the dataset and returns no result.
C11_UnknownScreenFails ==
    (call.op = "run_predefined_screen" /\ call.screen \notin CatalogKeys) =>
        /\ call.raised
        /\ call.error = "Unknown screen: " \o call.screen
        /\ ~call.queried
        /\ call.rows = <<>>

\* a run of the key momentum has failed, after a run of a catalog key
C11_Witness ==
    /\ call.op = "run_predefined_screen"
    /\ call.screen = "momentum"
    /\ call.raised
    /\ Len(audit_log) = 2
    /\ audit_log[1].status = "success"
    /\ audit_log[2].status = "failure"

RunOps == {"run_predefined_screen", "run_custom_screen", "run_screen"}

\* did the run that call records fail (an error was raised inside it)
RunFailed(c) ==
    IF c.op = "run_screen" THEN c.found /\ c.none ELSE c.raised

\* a step that makes a screen run appends one record to the audit log, with
\* the screen and the outcome of the run, and a failed run raises
RunAudited ==
    (call.op = "none" /\ call'.op \in RunOps) =>
        /\ Len(audit_log') = Len(audit_log) + 1
        /\ SubSeq(audit_log', 1, Len(audit_log)) = audit_log
        /\ LET record == audit_log'[Len(audit_log')]
           IN  /\ record.operation = "screen_run"
               /\ record.status = IF RunFailed(call') THEN "failure" ELSE "success"
        /\ RunFailed(call') => call'.raised

\* C12: every screen run, predefined (run_predefined_screen) or custom
\* (run_custom_screen, CustomScreenBuilder.run_screen), appends exactly one
\* audit-log record with the screen identity and the result count and status
\* success, or the error and status failure; a failing run re-raises the error
\* to its caller.
C12_EveryRunAudited == [][RunAudited]_vars

\* C13: the rows of a screen result are in descending ROE order, rows with
\* equal ROE in descending market-cap order, and rows equal on both keys in a
\* fixed order: the dataset and the screen determine the ordered result, so
\* that a second run against the unchanged dataset returns the same sequence.
C13_OrderingDeterministic ==
    Screened =>
        /\ \A i \in 1..Len(call.rows) : \A j \in 1..Len(call.rows) :
              i < j => InOrder(call.rows[i], call.rows[j])
        /\ \A again \in apply_criteria(company_master, snapshots, call.criteria,
                                       call.logic, call.filters) :
              again.rows = call.rows

(***************************************************************************)
(* Statistics of a result: get_screen_statistics applied to results of up  *)
(* to MaxResult rows, whose metrics may be missing.                        *)
(***************************************************************************)
MaxResult == 2

ResultRows ==
    (Sectors \cup {NoText})
    \X ({NULL} \cup Vals) \X {NULL, 1} \X {NULL, 2} \X ({NULL} \cup Vals)

ResultRow(t) ==
    [c \in {"c.sector", "d.roe", "d.price_to_book", "d.debt_equity", "c.market_cap"} |->
        CASE c = "c.sector" -> t[1]
          [] c = "d.roe" -> t[2]
          [] c = "d.price_to_book" -> t[3]
          [] c = "d.debt_equity" -> t[4]
          [] c = "c.market_cap" -> t[5]]

InitStats ==
    /\ EmptyTables
    /\ PREDEFINED_SCREENS = Catalog
    /\ \E n \in 0..MaxResult :
          \E ts \in [1..n -> ResultRows] :
              call = [op |-> "results", results |-> [i \in 1..n |-> ResultRow(ts[i])]]

GetScreenStatistics ==
    /\ call.op = "results"
    /\ call' = [op |-> "get_screen_statistics", results |-> call.results,
                stats |-> get_screen_statistics(call.results)]
    /\ Untouched

NextStats == GetScreenStatistics

SpecStats == InitStats /\ [][NextStats]_vars

StatKeys ==
    {"total_stocks", "sectors", "avg_roe", "median_pb", "median_de", "avg_market_cap"}

\* C14: get_screen_statistics returns, for every result, the empty one
\* included, a record with every field of the statistics; total_stocks is the
\* number of rows; each aggregate is computed over exactly the rows in which
\* its metric is present; for the empty result every field is zero or empty.
C14_StatisticsTotal ==
    call.op = "get_screen_statistics" =>
        LET results == call.results
            stats == call.stats
            present(c) == {i \in 1..Len(results) : results[i][c] # NULL}
        IN  /\ DOMAIN stats = StatKeys
            /\ stats.total_stocks = Len(results)
            /\ stats.avg_roe.count = Cardinality(present("d.roe"))
            /\ stats.avg_roe.sum = SeqSum(PresentVals(results, "d.roe"))
            /\ stats.avg_market_cap.count = Cardinality(present("c.market_cap"))
            /\ stats.avg_market_cap.sum = SeqSum(PresentVals(results, "c.market_cap"))
            /\ stats.median_pb.count = Cardinality(present("d.price_to_book"))
            /\ stats.median_de.count = Cardinality(present("d.debt_equity"))

C16_RunScreenAsApplyCriteria ==
    call.op = "run_screen" =>
        LET screen == get_screen(custom_screens, call.screen)
        IN  /\ call.none => ~screen.found
            /\ screen.found =>
                  \E o \in RunStoredCriteria(company_master, snapshots, screen.row,
                                             call.filters) :
                      /\ ~o.raised
                      /\ ~call.none
                      /\ call.rows = o.rows

(***************************************************************************)
(* Backtesting: BacktestEngine of src/backtesting/engine.py.               *)
(* Dates are day numbers.  The market-data provider is an input of each    *)
(* run: for every ticker either the fetch raises, or it has a price        *)
(* history, a sequence of [date, close] in date order.  A number the code  *)
(* computes in floating point is written as the fraction [num, den]; the   *)
(* closes of the model are such that every return is a whole number that   *)
(* binary64 computes exactly.                                              *)
(***************************************************************************)
MaxBacktests == 1    \* backtest records persisted in all
MaxDate == 9         \* the last day, today

\* timedelta(days=5) of _calculate_return
SellWindowDays == 5

Frac(n, d) == [num |-> n, den |-> d]

FracEq(a, b) == a.num * b.den = b.num * a.den

Obs(d, c) == [date |-> d, close |-> c]

\* the price histories of the provider, by name
Histories == {"none", "one", "up", "flat", "late", "down", "raises"}

History(h) ==
    CASE h = "none" -> <<>>
      [] h = "one" -> <<Obs(1, 100)>>
      [] h = "up" -> <<Obs(1, 100), Obs(4, 110)>>
      [] h = "flat" -> <<Obs(1, 100), Obs(4, 100)>>
      [] h = "late" -> <<Obs(1, 100), Obs(4, 110), Obs(6, 120)>>
      [] h = "down" -> <<Obs(2, 100), Obs(4, 90)>>
      [] h = "raises" -> <<>>

Markets == [Tickers -> Histories]

\* stock.history(start=start, end=end): the observations from start up to,
\* not including, end
history(h, start, end) ==
    SelectSeq(History(h), LAMBDA o : start <= o.date /\ o.date < end)

\* ((sell_price - buy_price) / buy_price) * 100
return_pct(buy_price, sell_price) == ((sell_price - buy_price) * 100) \div buy_price

\* a return computed also from a history that is too short
calculate_return_zero_filled(market, ticker, buy_date, sell_date) ==
    [ok |-> TRUE, buy_price |-> 0, sell_price |-> 0, return |-> 0]

\* BacktestEngine._calculate_return: ok is False for the result None
calculate_return(market, ticker, buy_date, sell_date) ==
    LET hist == history(market[ticker], buy_date, sell_date + SellWindowDays)
    IN  IF market[ticker] = "raises" \/ Len(hist) < 2
        THEN [ok |-> FALSE, buy_price |-> 0, sell_price |-> 0, return |-> 0]
        ELSE LET buy_price == hist[1].close
                 sell_price == hist[Len(hist)].close
             IN  [ok |-> TRUE, buy_price |-> buy_price, sell_price |-> sell_price,
                  return |-> return_pct(buy_price, sell_price)]

\* min(screen_date + timedelta(days=holding_period_days), end_date)
hold_end(screen_date, end_date, holding_period_days) ==
    IF screen_date + holding_period_days <= end_date
    THEN screen_date + holding_period_days ELSE end_date

\* the loop of _backtest_single_period over the rows of the result, from row
\* i on: the details of the tickers whose return could be computed
RECURSIVE Details(_, _, _, _, _)
Details(market, results_df, screen_date, sell_date, i) ==
    IF i > Len(results_df) THEN <<>>
    ELSE LET ticker == results_df[i]["c.ticker"]
             returns_data == calculate_return(market, ticker, screen_date, sell_date)
             rest == Details(market, results_df, screen_date, sell_date, i + 1)
         IN  IF returns_data.ok
             THEN <<[ticker |-> ticker,
                     buy_price |-> returns_data.buy_price,
                     sell_price |-> returns_data.sell_price,
                     return |-> returns_data.return,
                     screen_date |-> screen_date,
                     sell_date |-> sell_date]>> \o rest
             ELSE rest

\* the list returns, which the loop appends to together with details
Returns(details) == [i \in 1..Len(details) |-> details[i].return]

\* np.mean
np_mean(returns) == Frac(SeqSum(returns), Len(returns))

\* np.median: the middle value, or the mean of the two middle values
np_median(returns) ==
    LET n == Len(returns)
        vals == {returns[i] : i \in 1..n}
        sorted == CHOOSE t \in [1..n -> vals] :
                     /\ \A i \in 1..n, j \in 1..n : i < j => t[i] <= t[j]
                     /\ \A v \in vals :
                           Cardinality({i \in 1..n : t[i] = v})
                               = Cardinality({i \in 1..n : returns[i] = v})
    IN  Frac(sorted[(n + 1) \div 2] + sorted[(n + 2) \div 2], 2)

\* np.std, by its square: the population variance
np_std_squared(returns) ==
    LET n == Len(returns)
        squares == [i \in 1..n |-> returns[i] * returns[i]]
    IN  Frac(n * SeqSum(squares) - SeqSum(returns) * SeqSum(returns), n * n)

\* max(details, key=lambda x: x['return']): the first detail of greatest return
MaxBy(details) ==
    details[CHOOSE i \in 1..Len(details) :
               /\ \A j \in 1..Len(details) : details[j].return <= details[i].return
               /\ \A j \in 1..(i - 1) : details[j].return < details[i].return]

\* min(details, key=lambda x: x['return']): the first detail of least return
MinBy(details) ==
    details[CHOOSE i \in 1..Len(details) :
               /\ \A j \in 1..Len(details) : details[j].return >= details[i].return
               /\ \A j \in 1..(i - 1) : details[j].return > details[i].return]

\* the dict _backtest_single_period returns once the screen has run
PeriodResults(market, tickers, results_df, screen_date, end_date, holding_period_days) ==
    LET sell_date == hold_end(screen_date, end_date, holding_period_days)
        details == Details(market, results_df, screen_date, sell_date, 1)
        returns == Returns(details)
    IN  IF Len(results_df) = 0
        THEN [total_stocks |-> Cardinality(tickers),
              stocks_passed |-> 0,
              average_return |-> Frac(0, 1),
              median_return |-> Frac(0, 1),
              details |-> <<>>]
        ELSE IF Len(returns) > 0
        THEN [total_stocks |-> Cardinality(tickers),
              stocks_passed |-> Len(results_df),
              average_return |-> np_mean(returns),
              median_return |-> np_median(returns),
              best_performer |-> MaxBy(details).ticker,
              worst_performer |-> MinBy(details).ticker,
              winning_stocks |-> Cardinality({i \in 1..Len(returns) : returns[i] > 0}),
              losing_stocks |-> Cardinality({i \in 1..Len(returns) : returns[i] < 0}),
              max_return |-> MaxBy(details).return,
              min_return |-> MinBy(details).return,
              std_return |-> np_std_squared(returns),
              details |-> details]
        ELSE [total_stocks |-> Cardinality(tickers),
              stocks_passed |-> Len(results_df),
              average_return |-> Frac(0, 1),
              median_return |-> Frac(0, 1),
              details |-> <<>>]

\* Database.get_all_tickers
get_all_tickers(companies) == DOMAIN companies

\* BacktestEngine._backtest_single_period, its possible outcomes: the dict
\* returned (the empty dict after an exception, which the method only logs),
\* whether the screen ran (screened), and the tickers of the result rows
\* (matched), for each of which _calculate_return is called (priced)
backtest_single_period(companies, tables, market, screen_config, screen_date, end_date, holding_period_days) ==
    LET tickers == get_all_tickers(companies)
    IN  {IF o.raised
         THEN [results |-> EmptyDict, screened |-> FALSE, matched |-> <<>>,
               priced |-> <<>>]
         ELSE LET matched == [i \in 1..Len(o.rows) |-> o.rows[i]["c.ticker"]]
              IN  [results |-> PeriodResults(market, tickers, o.rows, screen_date,
                                             end_date, holding_period_days),
                   screened |-> TRUE, matched |-> matched, priced |-> matched] :
         o \in run_custom_screen(companies, tables, screen_config, "AND")}

\* results.get(key, default)
DictGet(d, k, default) == IF k \in DOMAIN d THEN d[k] ELSE default

\* the dict backtest_data of run_backtest
backtest_data(screen_name, today, start_date, end_date, results) ==
    [screen_name |-> screen_name,
     backtest_date |-> today,
     start_date |-> start_date,
     end_date |-> end_date,
     total_stocks_screened |-> DictGet(results, "total_stocks", 0),
     stocks_passed |-> DictGet(results, "stocks_passed", 0),
     average_return |-> DictGet(results, "average_return", Frac(0, 1)),
     median_return |-> DictGet(results, "median_return", Frac(0, 1)),
     best_performer |-> DictGet(results, "best_performer", None),
     worst_performer |-> DictGet(results, "worst_performer", None),
     results_detail |-> json_dumps(DictGet(results, "details", <<>>))]

\* a save that adds no row
save_backtest_result_dropped(table, data) == table

\* Database.save_backtest_result: session.add of one more row
save_backtest_result(table, data) == Append(table, data)

\* BacktestEngine.run_backtest, its possible outcomes: the table of backtest
\* records afterwards and what the caller gets (raised: an exception reaches
\* the caller)
run_backtest(companies, tables, table, market, today, screen_name, screen_config, start_date, end_date, holding_period_days) ==
    {[table |-> save_backtest_result(table,
                    backtest_data(screen_name, today, start_date, end_date, p.results)),
      out |-> [raised |-> FALSE, persisted |-> TRUE] @@ p] :
     p \in backtest_single_period(companies, tables, market, screen_config,
                                  start_date, end_date, holding_period_days)}

\* the screen configurations passed to run_backtest, by name: the dict of a
\* stored screen (main.py), the dict {'criteria': ..., 'logic': ...} (app.py),
\* and dicts of predicates
BacktestConfigs == {"stored", "pair", "both", "top", "nothing", "no_operator"}

BothCriteria == <<Entry("roe", [operator |-> ">=", value |-> 1])>>

BacktestConfig(k) ==
    CASE k = "stored" -> ConfigItems([name |-> "s1", description |-> "d",
                                      criteria |-> BothCriteria, logic |-> "AND"])
      [] k = "pair" -> <<Entry("criteria", [dict |-> BothCriteria]),
                         Entry("logic", [str |-> "AND"])>>
      [] k = "both" -> BothCriteria
      [] k = "top" -> <<Entry("roe", [operator |-> ">=", value |-> 2])>>
      [] k = "nothing" -> <<Entry("roe", [operator |-> ">", value |-> 2])>>
      [] k = "no_operator" -> MakeCriteria("no_operator")

InitBacktest == InitRuns

RunBacktest ==
    /\ Idle
    /\ Len(backtest_results) < MaxBacktests
    /\ \E k \in BacktestConfigs, market \in Markets, start_date \in {1, 2},
          end_date \in {3, MaxDate} :
          LET holding_period_days == 3
          IN  \E r \in run_backtest(company_master, snapshots, backtest_results,
                                    market, MaxDate, k, BacktestConfig(k),
                                    start_date, end_date, holding_period_days) :
                  /\ backtest_results' = r.table
                  /\ call' = [op |-> "run_backtest", screen |-> k,
                              screen_config |-> BacktestConfig(k),
                              market |-> market, start_date |-> start_date,
                              end_date |-> end_date,
                              holding_period_days |-> holding_period_days] @@ r.out
    /\ UNCHANGED <<company_master, snapshots, portfolio, custom_screens,
                   PREDEFINED_SCREENS, audit_log, technical_indicators, cache, now>>

NextBacktest ==
    \/ RunBacktest
    \/ Return

SpecBacktest == InitBacktest /\ [][NextBacktest]_vars

(***************************************************************************)
(* Properties of a backtest run.                                           *)
(***************************************************************************)
BacktestRun == call.op = "run_backtest"

\* is the dict a screen configuration, with its predicates under 'criteria'
ConfigShaped(config) ==
    \E i \in 1..Len(config) :
        config[i].field = "criteria" /\ "dict" \in DOMAIN config[i].cond

\* the criteria and the logic of a screen configuration; a dict of predicates
\* stands for itself, under AND
CriteriaOf(config) ==
    IF ConfigShaped(config)
    THEN config[CHOOSE i \in 1..Len(config) : config[i].field = "criteria"].cond.dict
    ELSE config

LogicOf(config) ==
    IF ConfigShaped(config) /\ \E i \in 1..Len(config) : config[i].field = "logic"
    THEN config[CHOOSE i \in 1..Len(config) : config[i].field = "logic"].cond.str
    ELSE "AND"

SeqRange(seq) == {seq[i] : i \in 1..Len(seq)}

\* C17: in run_backtest the set of tickers for which forward returns are
\* computed is exactly the set of instruments the screening engine returns
\* for the criteria and the logic of the given screen_config on the current
\* dataset, whatever the start date.
C17_ReturnsForScreenedTickers ==
    BacktestRun =>
        \E o \in apply_criteria(company_master, snapshots,
                                CriteriaOf(call.screen_config),
                                LogicOf(call.screen_config), NoFilter) :
            o.raised \/ SeqRange(call.priced)
                           = {o.rows[i]["c.ticker"] : i \in 1..Len(o.rows)}

\* C18: a backtest run persists a record only after the screening, the price
\* fetches and the aggregation went through; a run whose screening step
\* raises persists no record and surfaces the error to the caller.
C18_FailedRunNotPersisted ==
    BacktestRun =>
        /\ call.persisted => call.screened
        /\ ~call.screened => ~call.persisted /\ call.raised

\* the first close of a history observed on or after a date, 0 if none
FirstCloseFrom(h, d) ==
    LET later == {i \in 1..Len(History(h)) : History(h)[i].date >= d}
    IN  IF later = {} THEN 0
        ELSE History(h)[CHOOSE i \in later : \A j \in later : i <= j].close

\* C19: for each matched ticker the sell date is min(start date + holding
\* period, end date), the buy price is the first close on or after the start
\* date, the sell price is the first close on or after the sell date, and the
\* return is (sell - buy) / buy x 100, so that buy 100 and sell 110 give 10.
C19_ReturnOfHoldingPeriod ==
    (BacktestRun /\ "details" \in DOMAIN call.results) =>
        \A i \in 1..Len(call.results.details) :
            LET d == call.results.details[i]
                sellDate == IF call.start_date + call.holding_period_days < call.end_date
                            THEN call.start_date + call.holding_period_days
                            ELSE call.end_date
            IN  /\ d.sell_date = sellDate
                /\ d.buy_price = FirstCloseFrom(call.market[d.ticker], call.start_date)
                /\ d.sell_price = FirstCloseFrom(call.market[d.ticker], sellDate)
                /\ d.buy_price * d.return = (d.sell_price - d.buy_price) * 100
                /\ (d.buy_price = 100 /\ d.sell_price = 110) => d.return = 10

\* has the ticker at least 2 observations in the window of the run, fetched
\* without error
Observed(c, ticker) ==
    /\ c.market[ticker] # "raises"
    /\ Len(history(c.market[ticker], c.start_date,
                   hold_end(c.start_date, c.end_date, c.holding_period_days)
                       + SellWindowDays)) >= 2

\* C20: a matched ticker whose price history is missing, has fewer than 2
\* observations in its window, or whose fetch raises contributes to no
\* aggregate; it does not abort the run, the other tickers are processed, and
\* the aggregates are computed over exactly the tickers with 2 observations.
C20_ExcludedTickersOutOfAggregates ==
    (BacktestRun /\ call.screened) =>
        LET res == call.results
            details == res.details
            n == Len(details)
            returns == [i \in 1..n |-> details[i].return]
        IN  /\ call.persisted /\ ~call.raised
            /\ call.priced = call.matched
            /\ res.stocks_passed = Len(call.matched)
            /\ {details[i].ticker : i \in 1..n}
                  = {t \in SeqRange(call.matched) : Observed(call, t)}
            /\ n = Cardinality({i \in 1..Len(call.matched) :
                                   Observed(call, call.matched[i])})
            /\ n = 0 => /\ FracEq(res.average_return, Frac(0, 1))
                        /\ FracEq(res.median_return, Frac(0, 1))
                        /\ "best_performer" \notin DOMAIN res
            /\ n > 0 =>
                  /\ FracEq(res.average_return, Frac(SeqSum(returns), n))
                  /\ \E i \in 1..n :
                        /\ res.best_performer = details[i].ticker
                        /\ res.max_return = details[i].return
                        /\ \A j \in 1..n : details[j].return <= details[i].return
                  /\ \E i \in 1..n :
                        /\ res.worst_performer = details[i].ticker
                        /\ res.min_return = details[i].return
                        /\ \A j \in 1..n : details[j].return >= details[i].return
                  /\ res.winning_stocks >= Cardinality({i \in 1..n : returns[i] > 0})
                  /\ res.winning_stocks <= Cardinality({i \in 1..n : returns[i] >= 0})
                  /\ res.losing_stocks = Cardinality({i \in 1..n : returns[i] < 0})
                  /\ 2 * Cardinality({i \in 1..n :
                            returns[i] * res.median_return.den
                                < res.median_return.num}) <= n
                  /\ 2 * Cardinality({i \in 1..n :
                            returns[i] * res.median_return.den
                                > res.median_return.num}) <= n
                  /\ res.std_return.num * n * n * n
                        = res.std_return.den
                            * SeqSum([i \in 1..n |->
                                  (n * returns[i] - SeqSum(returns))
                                      * (n * returns[i] - SeqSum(returns))])

\* both tickers matched, TICK had a single observation and ACME two: the run
\* went on, was computed over ACME alone and was persisted
C20_Witness ==
    /\ BacktestRun
    /\ call.screened
    /\ call.matched = <<"TICK", "ACME">>
    /\ call.market["TICK"] = "one"
    /\ call.market["ACME"] = "up"
    /\ call.start_date = 1
    /\ Len(call.results.details) = 1
    /\ call.results.details[1].ticker = "ACME"
    /\ call.results.average_return = Frac(10, 1)
    /\ Len(backtest_results) = 1

\* C21: among the tickers included in the aggregates the winning count is the
\* number with return >= 0 (a return of exactly 0 is a win) and the losing
\* count is the number with return < 0, so winning + losing is the number of
\* included tickers.
C21_ZeroReturnIsWin ==
    (BacktestRun /\ "winning_stocks" \in DOMAIN call.results) =>
        LET res == call.results
            n == Len(res.details)
        IN  /\ res.winning_stocks
                  = Cardinality({i \in 1..n : res.details[i].return >= 0})
            /\ res.losing_stocks
                  = Cardinality({i \in 1..n : res.details[i].return < 0})
            /\ res.winning_stocks + res.losing_stocks = n

\* the run the step makes has no usable return: the screen ran and no matched
\* ticker has 2 observations in its window
NoUsableReturn(c) ==
    /\ c.op = "run_backtest"
    /\ c.screened
    /\ \A i \in 1..Len(c.matched) : ~Observed(c, c.matched[i])

EmptyBacktestWellDefined ==
    (call.op = "none" /\ NoUsableReturn(call')) =>
        /\ ~call'.raised
        /\ Len(backtest_results') = Len(backtest_results) + 1
        /\ SubSeq(backtest_results', 1, Len(backtest_results)) = backtest_results
        /\ LET record == backtest_results'[Len(backtest_results')]
           IN  /\ record.best_performer = None
               /\ record.worst_performer = None
               /\ record.stocks_passed = Len(call'.matched)
               /\ record.results_detail = json_dumps(<<>>)
        /\ call'.results.stocks_passed = Len(call'.matched)
        /\ call'.results.total_stocks = Cardinality(DOMAIN company_master)
        /\ call'.results.details = <<>>

\* C22: when the screen matches no instrument, or every matched ticker is
\* excluded, run_backtest does not raise, persists one record with null best
\* and worst performer, stocks_passed equal to the number of matched
\* instruments and an empty detail list, and returns those counts.
C22_EmptyBacktestWellDefined == [][EmptyBacktestWellDefined]_vars

\* two tickers matched, both excluded, and the record of the run is stored
C22_Witness ==
    /\ NoUsableReturn(call)
    /\ call.matched = <<"TICK", "ACME">>
    /\ call.market["TICK"] = "raises"
    /\ call.market["ACME"] = "one"
    /\ Len(backtest_results) = 1
    /\ backtest_results[1].stocks_passed = 2
    /\ backtest_results[1].best_performer = None

(***************************************************************************)
(* Technical signals: get_signals of src/api/app.py.                       *)
(* Prices and indicators are written in thousandths (38.2 is 38200), so    *)
(* that rounding to 2 decimals is a real conversion.  The outcome of the   *)
(* lazy recompute of a ticker (provider and calculation) is an input of    *)
(* each call.                                                              *)
(***************************************************************************)
MaxTech == 3         \* snapshots of technical indicators before a call

\* float('nan'): the Choppiness Index of a window without range (0 / 0)
NaN == -2

Today == 2

\* the columns of technical_indicators that get_signals reads
SignalColumns == {"ema_20", "ema_50", "macd", "choppiness_index"}

\* stored snapshots, by name
TechKinds == {"none", "full", "no_chop", "bear"}

TechValues(k) ==
    CASE k = "full" -> [ema_20 |-> 105000, ema_50 |-> 100000, macd |-> 1500,
                        choppiness_index |-> 30000]
      [] k = "no_chop" -> [ema_20 |-> 105000, ema_50 |-> 100000, macd |-> 1500,
                           choppiness_index |-> NULL]
      [] k = "bear" -> [ema_20 |-> 115000, ema_50 |-> 120000, macd |-> -1500,
                        choppiness_index |-> 70000]

\* the outcomes of fetch_historical_prices and
\* calculate_technical_indicators_from_history for a ticker, by name: no
\* history, a history of fewer than 14, of 14 to 25 and of 50 or more closes,
\* a history of constant prices, and a history whose snapshot cannot be stored
Recomputes == {"no_history", "short", "chop_only", "full", "flat", "store_fails"}

\* the dict indicators without ticker and as_of_date; None for no history
Indicators(k) ==
    CASE k = "no_history" -> [none |-> TRUE, values |-> EmptyDict]
      [] k = "short" -> [none |-> FALSE, values |-> EmptyDict]
      [] k = "chop_only" -> [none |-> FALSE, values |-> [choppiness_index |-> 50000]]
      [] k = "full" -> [none |-> FALSE,
                        values |-> [ema_20 |-> 104000, ema_50 |-> 101000,
                                    macd |-> 2000, choppiness_index |-> 38204]]
      [] k = "flat" -> [none |-> FALSE,
                        values |-> [ema_20 |-> 100000, ema_50 |-> 100000,
                                    macd |-> 0, choppiness_index |-> NaN]]
      [] k = "store_fails" -> [none |-> FALSE,
                               values |-> [ema_20 |-> 104000, ema_50 |-> 101000,
                                           macd |-> 2000, choppiness_index |-> 38204]]

\* a Float column: SQLite stores NaN as NULL
StoredFloat(v) == IF v = NaN THEN NULL ELSE v

\* TechnicalIndicators(**technical_data): the row of a dict of indicators
TechRow(ticker, as_of_date, values) ==
    [c \in SignalColumns \cup {"ticker", "as_of_date"} |->
        CASE c = "ticker" -> ticker
          [] c = "as_of_date" -> as_of_date
          [] OTHER -> IF c \in DOMAIN values THEN StoredFloat(values[c]) ELSE NULL]

\* Database.add_technical_indicators: session.add of one more row
add_technical_indicators(table, ticker, as_of_date, values) ==
    Append(table, TechRow(ticker, as_of_date, values))

\* SELECT id FROM t WHERE ticker = c.ticker ORDER BY as_of_date DESC, id DESC
\* LIMIT 1: the position of that row, 0 if the ticker has none
LatestOf(rows, ticker) ==
    LET mine == {i \in 1..Len(rows) : rows[i].ticker = ticker}
    IN  IF mine = {} THEN 0
        ELSE CHOOSE i \in mine :
                \A j \in mine : \/ rows[j].as_of_date < rows[i].as_of_date
                                \/ rows[j].as_of_date = rows[i].as_of_date /\ j <= i

\* the row of the query of get_signals for a ticker
SignalRow(tables, tech, ticker) ==
    LET f == LatestOf(tables["f"], ticker)
        ti == LatestOf(tech, ticker)
    IN  [c \in SignalColumns \cup {"ticker", "current_price"} |->
            CASE c = "ticker" -> ticker
              [] c = "current_price" -> IF f = 0 THEN NULL ELSE tables["f"][f].val
              [] OTHER -> IF ti = 0 THEN NULL ELSE tech[ti][c]]

\* x or y, for x a number or None
Or(x, y) == IF x = NULL \/ x = 0 THEN y ELSE x

\* indicators.get(c) or y
GetOr(values, c, y) == IF c \in DOMAIN values THEN Or(values[c], y) ELSE y

\* a comparison that also holds of equal numbers
GtNonStrict(a, b) == a # NaN /\ b # NaN /\ a >= b

\* comparisons of floats: every comparison with NaN is False
Gt(a, b) == a # NaN /\ b # NaN /\ a > b
Ge(a, b) == a # NaN /\ b # NaN /\ a >= b

\* round(float(v), 2)
Round2(v) ==
    IF v = NaN THEN NaN
    ELSE IF v >= 0 THEN ((v + 5) \div 10) * 10
    ELSE 0 - (((0 - v) + 5) \div 10) * 10

\* the thresholds 38.2 and 61.8
TrendingMax == 38200
ChoppyMin == 61800

\* is a recompute attempted for the row
NeedsRecompute(r) ==
    LET ema20 == Or(r["ema_20"], 0)
        ema50 == Or(r["ema_50"], 0)
        macd == Or(r["macd"], 0)
        chop == Or(r["choppiness_index"], 0)
    IN  (ema20 = 0 \/ ema50 = 0 \/ macd = 0 \/ chop = 0) /\ r["ticker"] # ""

\* the body of the loop of get_signals for one row: the table afterwards,
\* the item, the values the flags are computed from, and what the recompute did
SignalFor(tech, r, recompute) ==
    LET attempted == NeedsRecompute(r)
        ind == Indicators(recompute)
        stored == attempted /\ ~ind.none /\ recompute # "store_fails"
        price == Or(r["current_price"], 0)
        old == [c \in SignalColumns |-> Or(r[c], 0)]
        val == [c \in SignalColumns |->
                   IF stored THEN GetOr(ind.values, c, old[c]) ELSE old[c]]
    IN  [tech |-> IF stored
                  THEN add_technical_indicators(tech, r["ticker"], Today, ind.values)
                  ELSE tech,
         attempted |-> attempted,
         stored |-> stored,
         used |-> [price |-> price, ema20 |-> val["ema_20"], ema50 |-> val["ema_50"],
                   macd |-> val["macd"], chop |-> val["choppiness_index"]],
         item |-> [ticker |-> r["ticker"],
                   current_price |-> Round2(price),
                   ema_20 |-> Round2(val["ema_20"]),
                   ema_50 |-> Round2(val["ema_50"]),
                   macd |-> Round2(val["macd"]),
                   choppiness_index |-> Round2(val["choppiness_index"]),
                   ema_bullish |-> Gt(price, val["ema_20"])
                                      /\ Gt(val["ema_20"], val["ema_50"]),
                   ema_bearish |-> Gt(val["ema_20"], price)
                                      /\ Gt(val["ema_50"], val["ema_20"]),
                   macd_bullish |-> Gt(val["macd"], 0),
                   macd_bearish |-> Gt(0, val["macd"]),
                   trending |-> Ge(TrendingMax, val["choppiness_index"]),
                   choppy |-> Ge(val["choppiness_index"], ChoppyMin)]]

\* the rows of the query, one for each company, in the order of the tickers
TickerOrder == <<"TICK", "ACME">>

\* the loop of get_signals from row i on
RECURSIVE SignalLoop(_, _, _, _, _)
SignalLoop(tables, rows, tech, recomputes, i) ==
    IF i > Len(rows) THEN [tech |-> tech, done |-> <<>>]
    ELSE LET one == SignalFor(tech, rows[i], recomputes[rows[i]["ticker"]])
             rest == SignalLoop(tables, rows, one.tech, recomputes, i + 1)
         IN  [tech |-> rest.tech,
              done |-> <<[attempted |-> one.attempted, stored |-> one.stored,
                          used |-> one.used, item |-> one.item]>> \o rest.done]

\* match_filters, for the query parameter trending ("any" for None)
match_filters(item, trending) ==
    trending = "any" \/ item.trending = (trending = "true")

\* get_signals: the table afterwards, the response, and the work of the loop
get_signals(companies, tables, tech, recomputes, trending) ==
    LET present == SelectSeq(TickerOrder, LAMBDA t : t \in DOMAIN companies)
        rows == [i \in 1..Len(present) |-> SignalRow(tables, tech, present[i])]
        loop == SignalLoop(tables, rows, tech, recomputes, 1)
        results == [i \in 1..Len(loop.done) |-> loop.done[i].item]
        filtered == SelectSeq(results, LAMBDA s : match_filters(s, trending))
    IN  [tech |-> loop.tech,
         rows |-> rows,
         done |-> loop.done,
         signals |-> filtered,
         count |-> Len(filtered)]

\* the snapshots stored before the first call
SeedTech(kinds) ==
    LET row(t) == TechRow(t, 1, TechValues(kinds[t]))
        some(t) == IF kinds[t] = "none" THEN <<>> ELSE <<row(t)>>
    IN  some("TICK") \o some("ACME")

\* the price of TICK is 110; ACME has no fundamentals row
SeedPrices ==
    [fam \in Families |->
        IF fam = "f" THEN <<[ticker |-> "TICK", as_of_date |-> 1, val |-> 110000]>>
        ELSE <<>>]

InitSignals ==
    /\ company_master = SeedCompanies
    /\ snapshots = SeedPrices
    /\ portfolio = <<>>
    /\ custom_screens = <<>>
    /\ PREDEFINED_SCREENS = Catalog
    /\ audit_log = <<>>
    /\ backtest_results = <<>>
    /\ \E kinds \in [Tickers -> TechKinds] : technical_indicators = SeedTech(kinds)
    /\ cache = EmptyDict
    /\ now = 0
    /\ call = [op |-> "none"]

GetSignals ==
    /\ Idle
    /\ Len(technical_indicators) < MaxTech
    /\ \E recomputes \in [Tickers -> Recomputes], trending \in {"any", "true"} :
          LET r == get_signals(company_master, snapshots, technical_indicators,
                               recomputes, trending)
          IN  /\ technical_indicators' = r.tech
              /\ call' = [op |-> "get_signals", recomputes |-> recomputes,
                          trending |-> trending, rows |-> r.rows, done |-> r.done,
                          signals |-> r.signals, count |-> r.count]
    /\ UNCHANGED <<company_master, snapshots, portfolio, custom_screens,
                   PREDEFINED_SCREENS, audit_log, backtest_results, cache, now>>

NextSignals ==
    \/ GetSignals
    \/ Return

SpecSignals == InitSignals /\ [][NextSignals]_vars

(***************************************************************************)
(* Properties of the technical signals.                                    *)
(***************************************************************************)
SignalsCall == call.op = "get_signals"

\* C23: for every item returned by get_signals, ema_bullish = (price > EMA20
\* and EMA20 > EMA50), ema_bearish = (price < EMA20 and EMA20 < EMA50),
\* macd_bullish = (MACD > 0), macd_bearish = (MACD < 0), trending = (CI <=
\* 38.2), choppy = (CI >= 61.8); no item has both flags of a pair, and price
\* 110, EMA20 105, EMA50 100 yields ema_bullish and not ema_bearish.
C23_SignalFlags ==
    SignalsCall =>
        \A i \in 1..Len(call.done) :
            LET v == call.done[i].used
                item == call.done[i].item
                num(x) == x # NaN
            IN  /\ item.ema_bullish
                      <=> (num(v.ema20) /\ num(v.ema50)
                           /\ v.price > v.ema20 /\ v.ema20 > v.ema50)
                /\ item.ema_bearish
                      <=> (num(v.ema20) /\ num(v.ema50)
                           /\ v.price < v.ema20 /\ v.ema20 < v.ema50)
                /\ item.macd_bullish <=> (num(v.macd) /\ v.macd > 0)
                /\ item.macd_bearish <=> (num(v.macd) /\ v.macd < 0)
                /\ item.trending <=> (num(v.chop) /\ v.chop <= 38200)
                /\ item.choppy <=> (num(v.chop) /\ v.chop >= 61800)
                /\ ~(item.ema_bullish /\ item.ema_bearish)
                /\ ~(item.macd_bullish /\ item.macd_bearish)
                /\ ~(item.trending /\ item.choppy)
                /\ (v.price = 110000 /\ v.ema20 = 105000 /\ v.ema50 = 100000)
                      => item.ema_bullish /\ ~item.ema_bearish

\* price 110 with EMA20 105 and EMA50 100 was reported bullish, and another
\* item was computed from a recomputed Choppiness Index just above 38.2
C23_Witness ==
    /\ SignalsCall
    /\ Len(call.done) = 2
    /\ call.done[1].used.price = 110000
    /\ call.done[1].used.ema20 = 105000
    /\ call.done[1].used.ema50 = 100000
    /\ call.done[1].item.ema_bullish
    /\ call.done[2].used.chop = 38204
    /\ call.done[2].item.choppiness_index = 38200
    /\ ~call.done[2].item.trending

\* the number of snapshots of a ticker
SnapshotsOf(tech, ticker) == Cardinality({i \in 1..Len(tech) : tech[i].ticker = ticker})

\* did the recompute of the ticker produce indicators and store them
RecomputeSucceeded(c, ticker) == c.recomputes[ticker] \notin {"no_history", "store_fails"}

\* one step of get_signals, for the item of position i
BackfillOf(i) ==
    LET d == call'.done[i]
        t == d.item.ticker
        latest == LatestOf(technical_indicators, t)
        needed == \/ latest = 0
                  \/ \E c \in SignalColumns : technical_indicators[latest][c] \in {NULL, 0}
        added == SnapshotsOf(technical_indicators', t) - SnapshotsOf(technical_indicators, t)
        new == technical_indicators'[LatestOf(technical_indicators', t)]
    IN  /\ d.attempted <=> needed
        /\ (needed /\ RecomputeSucceeded(call', t)) =>
              /\ added = 1
              /\ new["ema_20"] # NULL => d.used.ema20 = new["ema_20"]
              /\ new["ema_50"] # NULL => d.used.ema50 = new["ema_50"]
              /\ new["macd"] # NULL => d.used.macd = new["macd"]
              /\ new["choppiness_index"] # NULL => d.used.chop = new["choppiness_index"]
        /\ ~(needed /\ RecomputeSucceeded(call', t)) => added = 0

LazyBackfill ==
    (call.op = "none" /\ call'.op = "get_signals") =>
        /\ SubSeq(technical_indicators', 1, Len(technical_indicators))
              = technical_indicators
        /\ Len(call'.done) = Cardinality(DOMAIN company_master)
        /\ \A t \in DOMAIN company_master :
              Cardinality({i \in 1..Len(call'.done) : call'.done[i].item.ticker = t}) = 1
        /\ call'.trending = "any" =>
              call'.signals = [i \in 1..Len(call'.done) |-> call'.done[i].item]
        /\ \A i \in 1..Len(call'.done) : BackfillOf(i)

\* C26: in get_signals a recompute is attempted for a ticker iff one of
\* EMA-20, EMA-50, MACD, Choppiness Index of its latest snapshot is absent or
\* exactly zero; a successful recompute appends exactly one snapshot and its
\* values are used in the response; a failing recompute appends nothing and
\* does not abort the batch: the unfiltered response has one item per
\* instrument.
C26_LazyBackfill == [][LazyBackfill]_vars

\* C27: a ticker whose Choppiness Index is absent from its latest snapshot and
\* could not be recomputed (backfill failed, history too short, or the value
\* is undefined) is reported as neither trending nor choppy.
C27_UnavailableChoppiness ==
    SignalsCall =>
        \A i \in 1..Len(call.done) :
            LET item == call.done[i].item
                ind == Indicators(call.recomputes[item.ticker])
                unavailable ==
                    /\ call.rows[i]["choppiness_index"] = NULL
                    /\ \/ ~RecomputeSucceeded(call, item.ticker)
                       \/ "choppiness_index" \notin DOMAIN ind.values
                       \/ ind.values["choppiness_index"] = NaN
            IN  unavailable => ~item.trending /\ ~item.choppy

(***************************************************************************)
(* Bulk update: update_stock_data and update_universe of src/api/app.py    *)
(* and the command update of src/main.py.  What the provider returns for   *)
(* a ticker, and whether one of the store writes fails, is an input of     *)
(* each batch.                                                             *)
(***************************************************************************)
MaxStored == 4       \* snapshot rows stored before a batch

\* the writes of one ticker, in the order of the loop
StoreWrites == <<"company", "f", "d", "g", "q", "ti">>

\* what happens to a ticker of the batch: the fetch returns no data, every
\* write succeeds, or the write named raises
UpdateOutcomes == {"no_data", "ok", "company", "f", "d", "g", "q", "ti"}

\* Database.add_company: update the row of the ticker or add it
add_company(companies, ticker, company_data) ==
    [t \in (DOMAIN companies) \cup {ticker} |->
        IF t = ticker THEN company_data ELSE companies[t]]

\* one write of the loop, in its own get_session scope
StoreWrite(st, write, ticker) ==
    CASE write = "company" ->
            [st EXCEPT !.companies = add_company(@, ticker, SeedCompanies[ticker])]
      [] write = "ti" ->
            [st EXCEPT !.tech = add_technical_indicators(@, ticker, Today,
                                                         TechValues("full"))]
      [] OTHER ->
            [st EXCEPT !.tables = append_snapshot(@, write, ticker, Today, 1)]

\* the writes of a ticker from position i on, up to the one that raises
RECURSIVE StoreFrom(_, _, _, _, _)
StoreFrom(st, writes, ticker, outcome, i) ==
    IF i > Len(writes) \/ writes[i] = outcome THEN st
    ELSE StoreFrom(StoreWrite(st, writes[i], ticker), writes, ticker, outcome, i + 1)

\* the body of the loop for one ticker; the technical indicators are written
\* by update_universe and by the command update
UpdateTicker(st, variant, ticker, outcome) ==
    LET writes == IF variant = "update_stock_data"
                  THEN SubSeq(StoreWrites, 1, 5) ELSE StoreWrites
        raised == \E i \in 1..Len(writes) : writes[i] = outcome
    IN  IF outcome = "no_data"
        THEN [st EXCEPT !.error_count = @ + 1]
        ELSE IF raised
        THEN [StoreFrom(st, writes, ticker, outcome, 1) EXCEPT !.error_count = @ + 1]
        ELSE [StoreFrom(st, writes, ticker, outcome, 1) EXCEPT !.success_count = @ + 1]

RECURSIVE UpdateLoop(_, _, _, _, _)
UpdateLoop(st, variant, tickers, outcomes, i) ==
    IF i > Len(tickers) THEN st
    ELSE UpdateLoop(UpdateTicker(st, variant, tickers[i], outcomes[tickers[i]]),
                    variant, tickers, outcomes, i + 1)

InitUpdate ==
    /\ EmptyTables
    /\ PREDEFINED_SCREENS = Catalog
    /\ call = [op |-> "none"]

\* update_stock_data, update_universe, and update, which also logs the tally
BulkUpdate ==
    /\ Idle
    /\ TotalRows(snapshots) < MaxStored
    /\ \E variant \in {"update_stock_data", "update_universe", "update"},
          tickers \in {<<"TICK">>, <<"TICK", "ACME">>},
          outcomes \in [Tickers -> UpdateOutcomes] :
          /\ variant = "update" => Len(audit_log) < MaxAudit
          /\ LET st == UpdateLoop([companies |-> company_master, tables |-> snapshots,
                                   tech |-> technical_indicators,
                                   success_count |-> 0, error_count |-> 0],
                                  variant, tickers, outcomes, 1)
             IN  /\ company_master' = st.companies
                 /\ snapshots' = st.tables
                 /\ technical_indicators' = st.tech
                 /\ audit_log' = IF variant = "update"
                                 THEN log_operation(audit_log, "data_update",
                                          "Updated " \o ToString(st.success_count)
                                              \o " stocks, " \o ToString(st.error_count)
                                              \o " errors", "success")
                                 ELSE audit_log
                 /\ call' = [op |-> variant, tickers |-> tickers, outcomes |-> outcomes,
                             success |-> st.success_count, errors |-> st.error_count]
    /\ UNCHANGED <<portfolio, custom_screens, PREDEFINED_SCREENS, backtest_results,
                   cache, now>>

NextUpdate ==
    \/ BulkUpdate
    \/ Return

SpecUpdate == InitUpdate /\ [][NextUpdate]_vars

BulkOps == {"update_stock_data", "update_universe", "update"}

\* was the ticker counted as an error by the batch the call records
CountedError(c, ticker) ==
    /\ c.outcomes[ticker] # "ok"
    /\ ~(c.op = "update_stock_data" /\ c.outcomes[ticker] = "ti")

RowsOfTicker(rows, ticker) == Cardinality({i \in 1..Len(rows) : rows[i].ticker = ticker})

AllOrNothing ==
    (call.op = "none" /\ call'.op \in BulkOps) =>
        /\ call'.success + call'.errors = Len(call'.tickers)
        /\ call'.errors = Cardinality({i \in 1..Len(call'.tickers) :
                                          CountedError(call', call'.tickers[i])})
        /\ \A i \in 1..Len(call'.tickers) :
              LET t == call'.tickers[i]
              IN  CountedError(call', t) =>
                    /\ t \in DOMAIN company_master' => t \in DOMAIN company_master
                    /\ \A fam \in Families :
                          RowsOfTicker(snapshots'[fam], t) = RowsOfTicker(snapshots[fam], t)
                    /\ RowsOfTicker(technical_indicators', t)
                          = RowsOfTicker(technical_indicators, t)

\* C24: in update_stock_data, update_universe and the command update every
\* ticker of the batch is attempted, success + errors is the number attempted,
\* and a ticker counted as an error (its fetch or one of its store writes
\* failed) leaves no newly committed company, fundamentals, derived, growth or
\* quality record of that ticker in the store.
C24_BulkUpdateAllOrNothing == [][AllOrNothing]_vars

(***************************************************************************)
(* The scoped transaction Database.get_session, around a body of writes    *)
(* to the table audit_log.                                                 *)
(***************************************************************************)
MaxBody == 3         \* statements in the body of a scope

\* the statements of a body: session.add of a row, or an exception
BodySteps == {"add_update", "add_run", "raise"}

Bodies == UNION {[1..n -> BodySteps] : n \in 0..MaxBody}

BodyRow(step) ==
    IF step = "add_update"
    THEN [operation |-> "data_update", details |-> "", status |-> "success"]
    ELSE [operation |-> "screen_run", details |-> "", status |-> "success"]

\* a rollback that flushes the pending rows
session_rollback_flushed(table, pending) == table \o pending

\* session.commit(): the pending rows become rows of the table
session_commit(table, pending) == table \o pending

\* session.rollback(): the pending rows are dropped
session_rollback(table, pending) == table

\* the statements of the body up to its first exception: the rows pending in
\* the session, and whether the body raised
RECURSIVE RunBody(_, _, _)
RunBody(body, pending, i) ==
    IF i > Len(body) THEN [pending |-> pending, raised |-> FALSE]
    ELSE IF body[i] = "raise" THEN [pending |-> pending, raised |-> TRUE]
    ELSE RunBody(body, Append(pending, BodyRow(body[i])), i + 1)

\* with self.get_session() as session: body.  The table afterwards, whether
\* an exception reaches the caller, and whether the session was closed.
get_session(table, body, commit_fails) ==
    LET b == RunBody(body, <<>>, 1)
    IN  IF ~b.raised /\ ~commit_fails
        THEN [table |-> session_commit(table, b.pending), raised |-> FALSE,
              closed |-> TRUE]
        ELSE [table |-> session_rollback(table, b.pending), raised |-> TRUE,
              closed |-> TRUE]

InitSession ==
    /\ EmptyTables
    /\ PREDEFINED_SCREENS = Catalog
    /\ call = [op |-> "none"]

WriteScope ==
    /\ Idle
    /\ Len(audit_log) < MaxAudit
    /\ \E body \in Bodies, commit_fails \in BOOLEAN :
          LET r == get_session(audit_log, body, commit_fails)
          IN  /\ audit_log' = r.table
              /\ call' = [op |-> "get_session", body |-> body,
                          commit_fails |-> commit_fails, before |-> audit_log,
                          raised |-> r.raised, closed |-> r.closed]
    /\ UNCHANGED <<company_master, snapshots, portfolio, custom_screens,
                   PREDEFINED_SCREENS, backtest_results, technical_indicators,
                   cache, now>>

NextSession ==
    \/ WriteScope
    \/ Return

SpecSession == InitSession /\ [][NextSession]_vars

\* the rows a body writes, in order
RECURSIVE WritesOf(_)
WritesOf(body) ==
    IF Len(body) = 0 THEN <<>>
    ELSE IF body[1] = "raise" THEN WritesOf(Tail(body))
    ELSE <<BodyRow(body[1])>> \o WritesOf(Tail(body))

\* C25: for every write scope, if the body completes without exception all of
\* its writes are committed together, and if an exception is raised inside the
\* scope (by the body or by the commit) none of its writes is visible to a
\* later read and the exception is re-raised; the session is closed in both
\* cases.
C25_ScopedTransaction ==
    call.op = "get_session" =>
        LET failed == call.commit_fails
                          \/ \E i \in 1..Len(call.body) : call.body[i] = "raise"
        IN  /\ call.closed
            /\ ~failed => ~call.raised /\ audit_log = call.before \o WritesOf(call.body)
            /\ failed => call.raised /\ audit_log = call.before

\* a scope added a row and then raised, after an earlier scope had committed
C25_Witness ==
    /\ call.op = "get_session"
    /\ call.body = <<"add_run", "raise">>
    /\ call.raised
    /\ Len(call.before) > 0
    /\ audit_log = call.before

(***************************************************************************)
(* The catalog under create_from_template.                                 *)
(***************************************************************************)
\* C28: the built-in catalog is read-only: after any sequence of
\* create_from_template calls with any overrides, successful or failing,
\* get_screen_config returns for every predefined screen the criteria, logic,
\* name and description it returned before the calls.
C28_CatalogReadOnly ==
    \A screen_name \in DOMAIN Catalog :
        get_screen_config(PREDEFINED_SCREENS, screen_name)
            = get_screen_config(Catalog, screen_name)

(***************************************************************************)
(* IndexDataService: the cache of index data.  The variable `now` is the   *)
(* wall clock in seconds; `cache` maps a cache key to the pair of the      *)
(* result and the time it was stored.                                      *)
(***************************************************************************)
MaxNow == 400        \* the clock stops here

\* the keys of NIFTY_INDICES, in the order of the dict
NIFTY_INDICES == <<"nifty_50", "nifty_midcap", "nifty_bank", "nifty_it", "nifty_auto">>

IndexKeys == {NIFTY_INDICES[i] : i \in 1..Len(NIFTY_INDICES)}

\* self.cache_timeout, in seconds
cache_timeout == 300

\* f"index_{index_key}"
cache_key(index_key) == "index_" \o index_key

\* what the download of an index delivers: data, an empty frame, an exception
FetchOutcomes == {"data", "empty", "raises"}

\* the result dict built from a download made at time t
IndexResult(index_key, t) == [index_key |-> index_key, last_updated |-> t]

NoIndexResult == [index_key |-> None, last_updated |-> 0]

\* IndexDataService.get_index_data at time t: the value returned (found is
\* false for None), whether it came from the cache, and the cache afterwards
get_index_data(c, t, index_key, fetched) ==
    IF index_key \notin IndexKeys
    THEN [found |-> FALSE, result |-> NoIndexResult, cached |-> FALSE, cache |-> c]
    ELSE IF /\ cache_key(index_key) \in DOMAIN c
            /\ t - c[cache_key(index_key)].timestamp < cache_timeout
    THEN [found |-> TRUE, result |-> c[cache_key(index_key)].data, cached |-> TRUE,
          cache |-> c]
    ELSE IF fetched # "data"
    THEN [found |-> FALSE, result |-> NoIndexResult, cached |-> FALSE, cache |-> c]
    ELSE [found |-> TRUE, result |-> IndexResult(index_key, t), cached |-> FALSE,
          cache |-> DictSet(c, cache_key(index_key),
                            [data |-> IndexResult(index_key, t), timestamp |-> t])]

\* IndexDataService.refresh_cache: get_index_data for every key, in order
RECURSIVE refresh_cache(_, _, _, _)
refresh_cache(c, t, fetched, i) ==
    IF i > Len(NIFTY_INDICES) THEN c
    ELSE refresh_cache(get_index_data(c, t, NIFTY_INDICES[i],
                                      fetched[NIFTY_INDICES[i]]).cache,
                       t, fetched, i + 1)

InitIndex ==
    /\ EmptyTables
    /\ PREDEFINED_SCREENS = Catalog
    /\ call = [op |-> "none"]

\* GET /api/index-data/{index_key}
GetIndexData ==
    /\ Idle
    /\ \E index_key \in IndexKeys \cup {"sensex"}, fetched \in FetchOutcomes :
          LET r == get_index_data(cache, now, index_key, fetched)
          IN  /\ cache' = r.cache
              /\ call' = [op |-> "get_index_data", index_key |-> index_key,
                          fetched |-> fetched, start |-> now, before |-> cache,
                          found |-> r.found, result |-> r.result,
                          cached |-> r.cached]
    /\ UNCHANGED <<company_master, snapshots, portfolio, custom_screens,
                   PREDEFINED_SCREENS, audit_log, backtest_results,
                   technical_indicators, now>>

\* POST /api/index-data/refresh
RefreshCache ==
    /\ Idle
    /\ \E fetched \in [IndexKeys -> {"data", "raises"}] :
          /\ cache' = refresh_cache(cache, now, fetched, 1)
          /\ call' = [op |-> "refresh_cache", fetched |-> fetched, start |-> now,
                      before |-> cache]
    /\ UNCHANGED <<company_master, snapshots, portfolio, custom_screens,
                   PREDEFINED_SCREENS, audit_log, backtest_results,
                   technical_indicators, now>>

\* time passes between two calls
Tick ==
    /\ Idle
    /\ \E d \in {200} : /\ now + d <= MaxNow
                        /\ now' = now + d
    /\ UNCHANGED <<company_master, snapshots, portfolio, custom_screens,
                   PREDEFINED_SCREENS, audit_log, backtest_results,
                   technical_indicators, cache, call>>

NextIndex ==
    \/ GetIndexData
    \/ RefreshCache
    \/ Tick
    \/ Return

SpecIndex == InitIndex /\ [][NextIndex]_vars

\* C29: after refresh_cache returns, the cache entry of every index whose
\* fetch succeeds holds data fetched during that call (its timestamp is not
\* earlier than the start of the call), also when the previous entry was
\* younger than the cache timeout; and get_index_data returns a cached entry
\* only while it is younger than the timeout.
C29_RefreshRefetchesAll ==
    /\ call.op = "refresh_cache" =>
           \A k \in IndexKeys :
               call.fetched[k] = "data" =>
                   /\ cache_key(k) \in DOMAIN cache
                   /\ cache[cache_key(k)].timestamp >= call.start
                   /\ cache[cache_key(k)].data.last_updated >= call.start
    /\ (call.op = "get_index_data" /\ call.cached) =>
           /\ cache_key(call.index_key) \in DOMAIN call.before
           /\ call.start - call.before[cache_key(call.index_key)].timestamp < cache_timeout
           /\ call.result = call.before[cache_key(call.index_key)].data

(***************************************************************************)
(* The bindings of the final expression of apply_criteria.                 *)
(***************************************************************************)
\* the placeholder names of one token of the expression
NamesOf(tok) == {o.ph : o \in {x \in OperandsOf(tok) : "ph" \in DOMAIN x}}

\* no placeholder name is written for two predicates of the expression
BoundOnce(toks) ==
    \A i, j \in 1..Len(toks) : i # j => NamesOf(toks[i]) \cap NamesOf(toks[j]) = {}

\* C30: for every criteria set over the fields the compiler knows (sector,
\* industry and market_cap included) combined with any additional filters,
\* each placeholder name of the final expression of apply_criteria is bound
\* exactly once: a binding written for an additional filter never overwrites
\* the binding of a criteria predicate, and each predicate is evaluated with
\* its own operand.
C30_BindingsNeverCollide ==
    (/\ call.op = "final_where"
     /\ ShapesOK(call.criteria)
     /\ Fields(call.criteria) \subseteq DOMAIN column_table_map) =>
        /\ ~call.out.raised
        /\ BoundOnce(call.out.where_sql)
        /\ \A k \in 1..Len(call.criteria) :
              \E i \in 1..Len(call.out.where_sql) :
                  Renders(call.out.where_sql[i], call.out.params,
                          call.criteria[k].field, call.criteria[k].cond)
        /\ FiltersRendered(call.out.where_sql, call.out.params, call.filters)

====
